---- MODULE Spec2Model ----
(***************************************************************************)
(* A model of the Chord-style ring DHT simulator: the ring of machines     *)
(* (CircularLL.h), the per-machine finger tables (DoublyLL.h), the         *)
(* per-machine B-tree of file records (BTree.h) and the facade (IPFS.h).   *)
(*                                                                         *)
(* The ring is a circular singly linked list with a head pointer.  It is   *)
(* modelled as the sequence of its nodes in next-order starting at head:   *)
(* head is ring[1], the next of ring[i] is ring[i % Len(ring) + 1], and    *)
(* head == nullptr is ring = << >>.  A pointer to a machine is its index   *)
(* in that sequence (0 is nullptr).                                        *)
(*                                                                         *)
(* Each definition that models code names the lines it models:             *)
(* "file first-last symbol".  A function of the code whose result is used  *)
(* several times is split into operators with parameters, one per step.    *)
(***************************************************************************)
EXTENDS Integers, Sequences, FiniteSets, TLC

VARIABLES
  ring,         \* the machines, in next-order from head
  initialized,  \* main.cpp's flag: initializeSystem has run
  out,          \* what the last operation reported
  stored,       \* history: the records put and not deleted since, for as
                \* long as every leave had a successor to hand them to
  walk          \* the position of a loop over the ring that is running
                \* (a route or a scan), Idle between operations

\* IPFS.h 17-22 IPFS (the state)
vars == <<ring, initialized, out, stored, walk>>

(***************************************************************************)
(* Configuration and bounds.                                               *)
(***************************************************************************)
\* IPFS.h 24-24 IPFS::bits
Bits == 4

\* order of every B-tree (main.cpp accepts 3..100)
Order == 3

\* the full model never holds more machines than this
MaxMachines == 3

\* the full model never holds more file records than this
MaxFiles == 4

\* the membership-only model never holds more machines than this
MaxRing == 5

\* the membership-only model starts from at most this many machines
MaxInit == 3

\* IPFS.h 37-37 IPFS::identifierSpace
identifierSpace == 2^Bits

(***************************************************************************)
(* BTree.h: file records and B-tree nodes.                                 *)
(* A node keeps value[1..count] and child[0..count]; the array slots       *)
(* beyond count are not part of the model (the places where the code       *)
(* reads one are flagged).                                                 *)
(***************************************************************************)
\* BTree.h 57-59 BTreeNode::child (nullptr)
NIL == [count |-> -1, value |-> << >>, child |-> << >>]

\* BTree.h 20-27 FileNode
FileNode(k, p) == [key |-> k, path |-> p]

\* BTree.h 41-41 BTreeNode::MAX
MAX == Order - 1

\* the threshold that is half the order, whatever the order
minOf_half(order) == order \div 2

\* BTree.h 42-47 BTreeNode::BTreeNode(int) (MIN)
minOf(order) ==
  IF (IF order % 2 = 0 THEN order \div 2 ELSE (order \div 2) + 1) - 1 < 1
  THEN 1
  ELSE (IF order % 2 = 0 THEN order \div 2 ELSE (order \div 2) + 1) - 1

\* BTree.h 42-47 BTreeNode::MIN
MIN == minOf(Order)

\* BTree.h 230-234 BTree::getAllFiles (the children child[0..count] in order)
ChildSeq(n) == [i \in 1..(n.count + 1) |-> n.child[i - 1]]

\* BTree.h 302-305 BTree::searchNode (where the scan from count down stops)
searchPos(key, n) ==
  CHOOSE p \in 1..n.count :
    /\ ~(key < n.value[p].key /\ p > 1)
    /\ \A q \in (p + 1)..n.count : key < n.value[q].key /\ q > 1

\* BTree.h 307-307 BTree::searchNode (the result at the position found)
searchAt(key, n, pos) == [found |-> (key = n.value[pos].key), pos |-> pos]

\* BTree.h 296-308 BTree::searchNode
searchNode(key, n) ==
  IF key < n.value[1].key
  THEN [found |-> FALSE, pos |-> 0]
  ELSE searchAt(key, n, searchPos(key, n))

RECURSIVE search(_, _)

\* BTree.h 290-293 BTree::search (after searchNode)
searchBelow(key, node, s) ==
  IF s.found
  THEN [node |-> node, pos |-> s.pos]
  ELSE search(key, node.child[s.pos])

\* BTree.h 285-294 BTree::search
search(key, node) ==
  IF node = NIL
  THEN [node |-> NIL, pos |-> 0]
  ELSE searchBelow(key, node, searchNode(key, node))

\* BTree.h 493-496 BTree::searchFile
searchFile(root, file_key) == search(file_key, root).node # NIL

\* BTree.h 504-504 BTree::findFile (nullptr)
NoFile == FileNode(-1, "")

\* findFile that returns the first record of the node it found the key in
fileAt_first(s) == IF s.node # NIL THEN s.node.value[1] ELSE NoFile

\* BTree.h 501-504 BTree::findFile (after search)
fileAt(s) == IF s.node # NIL THEN s.node.value[s.pos] ELSE NoFile

\* BTree.h 498-505 BTree::findFile
findFile(root, file_key) == fileAt(search(file_key, root))

\* fillnode that puts the record and the child at the front of the node
fillnode_front(file, c, n, k) ==
  [count |-> n.count + 1,
   value |-> <<file>> \o SubSeq(n.value, 1, n.count),
   child |-> [i \in 0..(n.count + 1) |->
                IF i = 0 THEN n.child[0]
                ELSE IF i = 1 THEN c
                ELSE n.child[i - 1]]]

\* BTree.h 310-318 BTree::fillnode
fillnode(file, c, n, k) ==
  [count |-> n.count + 1,
   value |-> SubSeq(n.value, 1, k) \o <<file>> \o SubSeq(n.value, k + 1, n.count),
   child |-> [i \in 0..(n.count + 1) |->
                IF i <= k THEN n.child[i]
                ELSE IF i = k + 1 THEN c
                ELSE n.child[i - 1]]]

\* BTree.h 327-333 BTree::split (the new right node)
upperHalf(n, mid) ==
  [count |-> MAX - mid,
   value |-> SubSeq(n.value, mid + 1, MAX),
   child |-> [i \in 0..(MAX - mid) |-> IF i = 0 THEN NIL ELSE n.child[i + mid]]]

\* BTree.h 334-334 BTree::split (n cut to count)
cutTo(n, cnt) ==
  [count |-> cnt,
   value |-> SubSeq(n.value, 1, cnt),
   child |-> [i \in 0..cnt |-> n.child[i]]]

\* BTree.h 341-343 BTree::split (the median leaves the left node)
promote(left, right) ==
  [y       |-> left.value[left.count],
   newNode |-> [right EXCEPT !.child[0] = left.child[left.count]],
   n       |-> cutTo(left, left.count - 1)]

\* split that cuts the node at MIN wherever the new record falls
split_low(file, c, n, k) ==
  promote(fillnode(file, c, cutTo(n, MIN), IF k <= MIN THEN k ELSE MIN),
          upperHalf(n, MIN))

\* BTree.h 320-344 BTree::split
split(file, c, n, k) ==
  IF k <= MIN
  THEN promote(fillnode(file, c, cutTo(n, MIN), k), upperHalf(n, MIN))
  ELSE promote(cutTo(n, MIN + 1),
               fillnode(file, c, upperHalf(n, MIN + 1), k - (MIN + 1)))

\* BTree.h 278-279 BTree::setval (the node was full)
splitUp(sp) == [up |-> TRUE, p |-> sp.y, c |-> sp.newNode, n |-> sp.n]

\* BTree.h 273-282 BTree::setval (after the call on child k returned r)
setvalUp(file, n, k, r) ==
  IF r.up
  THEN IF n.count < MAX
       THEN [up |-> FALSE, p |-> file, c |-> NIL,
             n |-> fillnode(r.p, r.c, [n EXCEPT !.child[k] = r.n], k)]
       ELSE splitUp(split(r.p, r.c, [n EXCEPT !.child[k] = r.n], k))
  ELSE [up |-> FALSE, p |-> file, c |-> NIL, n |-> [n EXCEPT !.child[k] = r.n]]

RECURSIVE setval(_, _)

\* setval that writes the record over the one it found with the same key
setvalAt_overwrite(file, n, s) ==
  IF s.found
  THEN [up |-> FALSE, p |-> file, c |-> NIL, n |-> [n EXCEPT !.value[s.pos] = file]]
  ELSE setvalUp(file, n, s.pos, setval(file, n.child[s.pos]))

\* BTree.h 268-282 BTree::setval (after searchNode)
setvalAt(file, n, s) ==
  IF s.found
  THEN [up |-> FALSE, p |-> file, c |-> NIL, n |-> n]
  ELSE setvalUp(file, n, s.pos, setval(file, n.child[s.pos]))

\* BTree.h 260-283 BTree::setval
setval(file, n) ==
  IF n = NIL
  THEN [up |-> TRUE, p |-> file, c |-> NIL, n |-> NIL]
  ELSE setvalAt(file, n, searchNode(file.key, n))

\* insert whose new root takes a child of the old root as its right child
newRoot_low(r) ==
  IF r.up
  THEN [count |-> 1, value |-> <<r.p>>,
        child |-> [i \in 0..1 |->
                     IF i = 0 \/ r.n = NIL THEN r.n ELSE r.n.child[0]]]
  ELSE r.n

\* BTree.h 244-257 BTree::insert (after setval)
newRoot(r) ==
  IF r.up
  THEN [count |-> 1, value |-> <<r.p>>,
        child |-> [i \in 0..1 |-> IF i = 0 THEN r.n ELSE r.c]]
  ELSE r.n

\* BTree.h 239-258 BTree::insert
insert(file, node) == newRoot(setval(file, node))

\* BTree.h 485-487 BTree::insertHelper
insertHelper(root, f) == insert(f, root)

\* BTree.h 387-393 BTree::clear
clear(node, k) ==
  [count |-> node.count - 1,
   value |-> SubSeq(node.value, 1, k - 1) \o SubSeq(node.value, k + 1, node.count),
   child |-> [j \in 0..(node.count - 1) |->
                IF j < k THEN node.child[j] ELSE node.child[j + 1]]]

\* BTree.h 396-398 BTree::copysucc (the left-most node below temp)
RECURSIVE leftmost(_)
leftmost(temp) ==
  IF temp.child[0] # NIL THEN leftmost(temp.child[0]) ELSE temp

\* BTree.h 395-400 BTree::copysucc
copysucc(node, i) ==
  [node EXCEPT !.value[i] = leftmost(node.child[i]).value[1]]

\* BTree.h 423-439 BTree::rightshift
rightshift(node, k) ==
  LET temp  == node.child[k]
      left  == node.child[k - 1]
  IN  [node EXCEPT
         !.value[k] = left.value[left.count],
         !.child[k - 1] = cutTo(left, left.count - 1),
         !.child[k] = [count |-> temp.count + 1,
                       value |-> <<node.value[k]>> \o temp.value,
                       child |-> [j \in 0..(temp.count + 1) |->
                                    IF j = 0 THEN left.child[left.count]
                                    ELSE temp.child[j - 1]]]]

\* BTree.h 441-456 BTree::leftshift
leftshift(node, k) ==
  LET left   == node.child[k - 1]
      right  == node.child[k]
  IN  [node EXCEPT
         !.value[k] = right.value[1],
         !.child[k - 1] = [count |-> left.count + 1,
                           value |-> Append(left.value, node.value[k]),
                           child |-> [j \in 0..(left.count + 1) |->
                                        IF j = left.count + 1 THEN right.child[0]
                                        ELSE left.child[j]]],
         !.child[k] = [count |-> right.count - 1,
                       value |-> Tail(right.value),
                       child |-> [j \in 0..(right.count - 1) |-> right.child[j + 1]]]]

\* BTree.h 462-473 BTree::merge (the left node takes the separator and the
\* right node).  When right->child[0] is null the code leaves the slot
\* left->child[left->count] as it was: a slot beyond the old count, which in
\* a leaf has never held anything but nullptr.
merged(left, sep, right) ==
  [count |-> left.count + 1 + right.count,
   value |-> left.value \o <<sep>> \o right.value,
   child |-> [j \in 0..(left.count + 1 + right.count) |->
                IF j <= left.count THEN left.child[j]
                ELSE IF j = left.count + 1
                     THEN (IF right.child[0] # NIL THEN right.child[0] ELSE NIL)
                ELSE right.child[j - left.count - 1]]]

\* BTree.h 458-482 BTree::merge
merge(node, k) ==
  [count |-> node.count - 1,
   value |-> SubSeq(node.value, 1, k - 1) \o SubSeq(node.value, k + 1, node.count),
   child |-> [j \in 0..(node.count - 1) |->
                IF j = k - 1
                THEN merged(node.child[k - 1], node.value[k], node.child[k])
                ELSE IF j < k THEN node.child[j]
                ELSE node.child[j + 1]]]

\* restore that looks at the right sibling before the left one
restore_rightFirst(node, i) ==
  IF i = 0
  THEN IF node.child[1].count > MIN THEN leftshift(node, 1) ELSE merge(node, 1)
  ELSE IF i = node.count
  THEN IF node.child[i - 1].count > MIN THEN rightshift(node, i) ELSE merge(node, i)
  ELSE IF node.child[i + 1].count > MIN THEN leftshift(node, i + 1)
  ELSE IF node.child[i - 1].count > MIN THEN rightshift(node, i)
  ELSE merge(node, i)

\* BTree.h 402-421 BTree::restore
restore(node, i) ==
  IF i = 0
  THEN IF node.child[1].count > MIN THEN leftshift(node, 1) ELSE merge(node, 1)
  ELSE IF i = node.count
  THEN IF node.child[i - 1].count > MIN THEN rightshift(node, i) ELSE merge(node, i)
  ELSE IF node.child[i - 1].count > MIN THEN rightshift(node, i)
  ELSE IF node.child[i + 1].count > MIN THEN leftshift(node, i + 1)
  ELSE merge(node, i)

\* BTree.h 380-380 BTree::delhelp (the array slot child[i]; after clear has
\* lowered count below i the slot still holds what it held)
slot(node, before, i) ==
  IF i <= node.count THEN node.child[i] ELSE before.child[i]

\* delhelp without the restore of an underflowed child
fixup_never(before, i, r) == r

\* BTree.h 380-384 BTree::delhelp (restore child i if it underflowed)
fixup(before, i, r) ==
  IF slot(r.n, before, i) # NIL /\ slot(r.n, before, i).count < MIN
  THEN [flag |-> r.flag, n |-> restore(r.n, i)]
  ELSE r

\* BTree.h 369-377 BTree::delhelp (child i after the call on it returned d)
below(node, i, d) == [flag |-> d.flag, n |-> [node EXCEPT !.child[i] = d.n]]

RECURSIVE delhelp(_, _)

\* BTree.h 368-369 BTree::delhelp (the successor replaces value i, then
\* leaves child i)
delSucc(n1, i) == below(n1, i, delhelp(n1.value[i].key, n1.child[i]))

\* BTree.h 366-378 BTree::delhelp (the removal, before child i is looked at)
removed(file_key, node, s) ==
  IF s.found
  THEN IF node.child[s.pos - 1] # NIL
       THEN delSucc(copysucc(node, s.pos), s.pos)
       ELSE [flag |-> TRUE, n |-> clear(node, s.pos)]
  ELSE below(node, s.pos, delhelp(file_key, node.child[s.pos]))

\* BTree.h 364-384 BTree::delhelp (after searchNode)
delAt(file_key, node, s) == fixup(node, s.pos, removed(file_key, node, s))

\* BTree.h 360-385 BTree::delhelp
delhelp(file_key, node) ==
  IF node = NIL
  THEN [flag |-> FALSE, n |-> NIL]
  ELSE delAt(file_key, node, searchNode(file_key, node))

\* del that keeps a root without records
collapse_keep(r) == r.n

\* BTree.h 349-357 BTree::del (after delhelp)
collapse(r) == IF r.flag /\ r.n.count = 0 THEN r.n.child[0] ELSE r.n

\* BTree.h 346-358 BTree::del
del(file_key, node) ==
  IF node = NIL THEN NIL ELSE collapse(delhelp(file_key, node))

\* BTree.h 489-491 BTree::deleteHelper
deleteHelper(root, file_key) == del(file_key, root)

\* getAllFiles that stops after the records of the first node on its queue
getAllFilesLoop_root(q, files) ==
  IF q = << >> THEN files ELSE files \o Head(q).value

\* BTree.h 222-235 BTree::getAllFiles (the loop: q is the queue, files the
\* result so far)
RECURSIVE getAllFilesLoop(_, _)
getAllFilesLoop(q, files) ==
  IF q = << >>
  THEN files
  ELSE getAllFilesLoop(
         Tail(q) \o SelectSeq(ChildSeq(Head(q)), LAMBDA c : c # NIL),
         files \o Head(q).value)

\* BTree.h 215-237 BTree::getAllFiles
getAllFiles(node) ==
  IF node = NIL THEN << >> ELSE getAllFilesLoop(<<node>>, << >>)

RECURSIVE countFiles(_)

\* BTree.h 204-208 BTree::countFiles (the loop over child[i..count])
RECURSIVE countFilesFrom(_, _)
countFilesFrom(node, i) ==
  IF i > node.count THEN 0
  ELSE countFiles(node.child[i]) + countFilesFrom(node, i + 1)

\* BTree.h 200-210 BTree::countFiles
countFiles(node) ==
  IF node = NIL THEN 0 ELSE node.count + countFilesFrom(node, 0)

(***************************************************************************)
(* DoublyLL.h and CircularLL.h: machines, finger tables and the ring.      *)
(***************************************************************************)
\* DoublyLL.h 96-118 DoublyLinkedList::initialize
initialize(machine_key, IS) ==
  [i \in 1..(IF Bits < 1 THEN 1 ELSE Bits) |->
     [filekey    |-> (machine_key + 2^(i - 1)) % IS,
      machinekey |-> -1,
      m          |-> 0]]

\* CircularLL.h 165-166 CircularLinkedList::insert (the new node)
CircularNode(v) ==
  [key |-> v, RT |-> initialize(v, identifierSpace), BTreeroot |-> NIL]

\* CircularLL.h 29-29 CircularNode::next
next(r, i) == (i % Len(r)) + 1

\* CircularLL.h 150-159 CircularLinkedList::getMachineCount
getMachineCount(r) == Len(r)

\* CircularLL.h 181-190 CircularLinkedList::insert (the finger pointers keep
\* their targets when a node is spliced in at index pos)
repoint(r, pos) ==
  [i \in 1..Len(r) |->
     [r[i] EXCEPT !.RT = [j \in 1..Len(r[i].RT) |->
        [r[i].RT[j] EXCEPT !.m = IF @ >= pos THEN @ + 1 ELSE @]]]]

\* CircularLL.h 185-188 CircularLinkedList::insert (where the walk from head
\* stops)
insertPos(r, value) ==
  CHOOSE c \in 1..Len(r) :
    /\ ~(c < Len(r) /\ r[c + 1].key < value)
    /\ \A d \in 1..(c - 1) : r[d + 1].key < value

\* CircularLL.h 189-190 CircularLinkedList::insert (the splice after current)
spliceAfter(q, current, newNode) ==
  SubSeq(q, 1, current) \o <<newNode>> \o SubSeq(q, current + 1, Len(q))

\* CircularLL.h 185-190 CircularLinkedList::insert (not before head)
insertBehind(r, current, newNode) ==
  spliceAfter(repoint(r, current + 1), current, newNode)

\* insert without the case of a new head
CLL_insert_behind(r, value) ==
  IF r = << >>
  THEN <<CircularNode(value)>>
  ELSE insertBehind(r, insertPos(r, value), CircularNode(value))

\* insert that links a new smallest ID behind the tail and leaves head alone
CLL_insert_tail(r, value) ==
  IF r = << >>
  THEN <<CircularNode(value)>>
  ELSE IF value < r[1].key
  THEN Append(r, CircularNode(value))
  ELSE insertBehind(r, insertPos(r, value), CircularNode(value))

\* CircularLL.h 164-192 CircularLinkedList::insert
CLL_insert(r, value) ==
  IF r = << >>
  THEN <<CircularNode(value)>>
  ELSE IF value < r[1].key
  THEN <<CircularNode(value)>> \o repoint(r, 1)
  ELSE insertBehind(r, insertPos(r, value), CircularNode(value))

\* search that finds no machine
CLL_search_never(r, value) == FALSE

\* CircularLL.h 222-232 CircularLinkedList::search
CLL_search(r, value) == \E i \in 1..Len(r) : r[i].key = value

\* findMachineById that returns the head when no machine has the id
findMachineById_head(r, id) ==
  IF \E i \in 1..Len(r) : r[i].key = id
  THEN CHOOSE i \in 1..Len(r) :
         r[i].key = id /\ \A j \in 1..(i - 1) : r[j].key # id
  ELSE 1

\* CircularLL.h 696-706 CircularLinkedList::findMachineById
findMachineById(r, id) ==
  IF \E i \in 1..Len(r) : r[i].key = id
  THEN CHOOSE i \in 1..Len(r) :
         r[i].key = id /\ \A j \in 1..(i - 1) : r[j].key # id
  ELSE 0

\* CircularLL.h 477-489 CircularLinkedList::findPredecessor
findPredecessor(r, machineKey) ==
  IF \E i \in 1..Len(r) : r[next(r, i)].key = machineKey
  THEN CHOOSE i \in 1..Len(r) :
         /\ r[next(r, i)].key = machineKey
         /\ \A j \in 1..(i - 1) : r[next(r, j)].key # machineKey
  ELSE 0

\* CircularLL.h 708-720 CircularLinkedList::SearchNewMachine
SearchNewMachine(r, machineKey) == findPredecessor(r, machineKey)

\* succ that passes over the machine whose ID is the value itself
succ_strict(r, value) ==
  IF r = << >>
  THEN 0
  ELSE IF \E i \in 1..Len(r) : r[i].key > value
  THEN CHOOSE i \in 1..Len(r) :
         r[i].key > value /\ \A j \in 1..(i - 1) : ~(r[j].key > value)
  ELSE 1

\* CircularLL.h 341-354 CircularLinkedList::succ
succ(r, value) ==
  IF r = << >>
  THEN 0
  ELSE IF \E i \in 1..Len(r) : r[i].key >= value
  THEN CHOOSE i \in 1..Len(r) :
         r[i].key >= value /\ \A j \in 1..(i - 1) : ~(r[j].key >= value)
  ELSE 1

\* CircularLL.h 373-373 CircularLinkedList::updateRT (the target of finger i)
fingerTarget(key, i) == (key + 2^i) % identifierSpace

\* CircularLL.h 374-377 CircularLinkedList::updateRT (one finger)
fingerTo(r, target, succNode) ==
  [filekey    |-> target,
   machinekey |-> IF succNode # 0 THEN r[succNode].key ELSE -1,
   m          |-> succNode]

\* CircularLL.h 365-380 CircularLinkedList::updateRT (one routing table)
fingersOf(r, key, fresh) ==
  [j \in 1..Len(fresh) |->
     fingerTo(r, fingerTarget(key, j - 1), succ(r, fingerTarget(key, j - 1)))]

\* updateRT that rebuilds the routing table of head only
updateRT_head(r) ==
  [c \in 1..Len(r) |->
     IF c = 1
     THEN [r[c] EXCEPT !.RT =
             fingersOf(r, r[c].key, initialize(r[c].key, identifierSpace))]
     ELSE r[c]]

\* CircularLL.h 359-383 CircularLinkedList::updateRT
updateRT(r) ==
  [c \in 1..Len(r) |->
     [r[c] EXCEPT !.RT =
        fingersOf(r, r[c].key, initialize(r[c].key, identifierSpace))]]

\* isBetween without its upper end
isBetween_past(target, start, end) == target # start

\* CircularLL.h 466-472 CircularLinkedList::isBetween
isBetween(target, start, end) ==
  IF start < end
  THEN target > start /\ target <= end
  ELSE target > start \/ target <= end

\* the test without the wrap-around case
responsibleTest_nowrap(count, predKey, currentKey, key) ==
  IF count = 1 THEN TRUE
  ELSE key > predKey /\ key <= currentKey

\* CircularLL.h 416-424 CircularLinkedList::routeToKey (the test)
responsibleTest(count, predKey, currentKey, key) ==
  IF count = 1 THEN TRUE
  ELSE IF predKey < currentKey
  THEN key > predKey /\ key <= currentKey
  ELSE key > predKey \/ key <= currentKey

\* the predecessor key that is -1 for every machine
keyOrMinusOne_none(r, pred) == -1

\* CircularLL.h 414-414 CircularLinkedList::routeToKey (predKey)
keyOrMinusOne(r, pred) == IF pred # 0 THEN r[pred].key ELSE -1

\* CircularLL.h 413-424 CircularLinkedList::routeToKey (is the machine at
\* index current responsible for key)
responsibleAt(r, current, key) ==
  responsibleTest(getMachineCount(r),
                  keyOrMinusOne(r, findPredecessor(r, r[current].key)),
                  r[current].key, key)

\* CircularLL.h 435-443 CircularLinkedList::routeToKey (the fingers that
\* qualify)
goodFingers(RT, currentKey, key) ==
  {j \in 1..Len(RT) : RT[j].m # 0 /\ isBetween(RT[j].machinekey, currentKey, key)}

\* the scan in which the first finger that qualifies wins
lastOf_first(RT, good) ==
  IF good = {} THEN 0 ELSE RT[CHOOSE j \in good : \A h \in good : j <= h].m

\* CircularLL.h 439-439 CircularLinkedList::routeToKey (the last one wins)
lastOf(RT, good) ==
  IF good = {} THEN 0 ELSE RT[CHOOSE j \in good : \A h \in good : h <= j].m

\* CircularLL.h 431-443 CircularLinkedList::routeToKey (the finger scan)
bestFinger(r, current, key) ==
  lastOf(r[current].RT, goodFingers(r[current].RT, r[current].key, key))

\* CircularLL.h 446-448 CircularLinkedList::routeToKey (the next hop)
hopOrNext(r, current, finger) ==
  IF finger = 0 THEN next(r, current) ELSE finger

RECURSIVE routeLoop(_, _, _, _, _)

\* CircularLL.h 450-457 CircularLinkedList::routeToKey (the loop guard and
\* the step)
hop(r, nextHop, key, path, visited) ==
  IF r[nextHop].key \in visited
  THEN [path |-> path, guard |-> TRUE]
  ELSE routeLoop(r, nextHop, key, Append(path, r[nextHop].key),
                 visited \cup {r[nextHop].key})

\* CircularLL.h 411-458 CircularLinkedList::routeToKey (the loop); guard says
\* the loop ended at the visited-set guard
routeLoop(r, current, key, path, visited) ==
  IF responsibleAt(r, current, key)
  THEN [path |-> path, guard |-> FALSE]
  ELSE hop(r, hopOrNext(r, current, bestFinger(r, current, key)),
           key, path, visited)

\* routeToKey that starts at the head when no machine has the start ID
routeFrom_head(r, current, key) ==
  IF current = 0
  THEN routeLoop(r, 1, key, <<r[1].key>>, {r[1].key})
  ELSE routeLoop(r, current, key, <<r[current].key>>, {r[current].key})

\* CircularLL.h 401-408 CircularLinkedList::routeToKey (from the start)
routeFrom(r, current, key) ==
  IF current = 0
  THEN [path |-> << >>, guard |-> FALSE]
  ELSE routeLoop(r, current, key, <<r[current].key>>, {r[current].key})

\* CircularLL.h 389-461 CircularLinkedList::routeToKey (with how it ended)
route(r, startMachineId, key) ==
  IF r = << >>
  THEN [path |-> << >>, guard |-> FALSE]
  ELSE routeFrom(r, findMachineById(r, startMachineId), key)

\* CircularLL.h 389-461 CircularLinkedList::routeToKey
routeToKey(r, startMachineId, key) == route(r, startMachineId, key).path

\* CircularLL.h 64-67 Traverse_delete (the loop: files[i..] go into tree)
RECURSIVE insertAll(_, _, _)
insertAll(tree, files, i) ==
  IF i > Len(files) THEN tree
  ELSE insertAll(insertHelper(tree, files[i]), files, i + 1)

\* Traverse_delete that replaces the destination's tree by the source's
Traverse_delete_replace(r, source, destination) ==
  IF r[source].BTreeroot = NIL
  THEN r
  ELSE [r EXCEPT ![destination].BTreeroot = r[source].BTreeroot]

\* CircularLL.h 56-68 Traverse_delete
Traverse_delete(r, source, destination) ==
  IF r[source].BTreeroot = NIL
  THEN r
  ELSE [r EXCEPT ![destination].BTreeroot =
          insertAll(@, getAllFiles(r[source].BTreeroot), 1)]

\* shouldMove with the interval open at the new machine's key
shouldMove_open(file, previousKey, newKey) ==
  IF previousKey < newKey
  THEN file.key > previousKey /\ file.key < newKey
  ELSE file.key > previousKey \/ file.key < newKey

\* CircularLL.h 86-92 Traverse_insert (shouldMove)
shouldMove(file, previousKey, newKey) ==
  IF previousKey < newKey
  THEN file.key > previousKey /\ file.key <= newKey
  ELSE file.key > previousKey \/ file.key <= newKey

\* the moves that leave the records in the tree of the successor too
moveAll_keep(to, from, toMove, i) ==
  [to |-> insertAll(to, toMove, i), from |-> from]

\* CircularLL.h 103-108 Traverse_insert (the loop: to and from are the trees
\* of the new machine and of its successor)
RECURSIVE moveAll(_, _, _, _)
moveAll(to, from, toMove, i) ==
  IF i > Len(toMove) THEN [to |-> to, from |-> from]
  ELSE moveAll(insertHelper(to, toMove[i]),
               deleteHelper(from, toMove[i].key), toMove, i + 1)

\* the moves without the deletes from the successor
moveTo_copy(r, newMachine, successor, moved) ==
  [r EXCEPT ![newMachine].BTreeroot = moved.to]

\* CircularLL.h 99-109 Traverse_insert (the two trees after the moves)
moveTo(r, newMachine, successor, moved) ==
  [r EXCEPT ![newMachine].BTreeroot = moved.to,
            ![successor].BTreeroot = moved.from]

\* toMove with every file of the successor
selectMoves_all(files, previousKey, newKey) == files

\* CircularLL.h 83-97 Traverse_insert (toMove)
selectMoves(files, previousKey, newKey) ==
  SelectSeq(files, LAMBDA f : shouldMove(f, previousKey, newKey))

\* the moves that take every record of toMove out of the successor's tree
\* and put all but the first into the new machine's
redistribute_lossy(r, newMachine, successor, toMove) ==
  IF toMove = << >>
  THEN r
  ELSE moveTo(r, newMachine, successor,
              [to   |-> insertAll(r[newMachine].BTreeroot, toMove, 2),
               from |-> moveAll(r[newMachine].BTreeroot, r[successor].BTreeroot,
                                toMove, 1).from])

\* CircularLL.h 99-109 Traverse_insert (the moves)
redistribute(r, newMachine, successor, toMove) ==
  IF toMove = << >>
  THEN r
  ELSE moveTo(r, newMachine, successor,
              moveAll(r[newMachine].BTreeroot, r[successor].BTreeroot, toMove, 1))

\* Traverse_insert that takes the records of the interval from the successor
\* of the successor
handOff_far(r, previous, newMachine, successor) ==
  IF r[next(r, successor)].BTreeroot = NIL
  THEN r
  ELSE redistribute(r, newMachine, next(r, successor),
         selectMoves(getAllFiles(r[next(r, successor)].BTreeroot),
                     r[previous].key, r[newMachine].key))

\* CircularLL.h 73-110 Traverse_insert (for the three machines)
handOff(r, previous, newMachine, successor) ==
  IF r[successor].BTreeroot = NIL
  THEN r
  ELSE redistribute(r, newMachine, successor,
         selectMoves(getAllFiles(r[successor].BTreeroot),
                     r[previous].key, r[newMachine].key))

\* CircularLL.h 73-110 Traverse_insert
Traverse_insert(r, previous) ==
  handOff(r, previous, next(r, previous), next(r, next(r, previous)))

\* CircularLL.h 211-214 CircularLinkedList::insertAfter (the hand-off)
afterInsert(r1, prev) ==
  IF prev # 0 /\ getMachineCount(r1) > 1
  THEN Traverse_insert(r1, prev)
  ELSE r1

\* CircularLL.h 208-216 CircularLinkedList::insertAfter (after updateRT)
joined(r1, value) ==
  [ring |-> afterInsert(r1, SearchNewMachine(r1, value)), res |-> "added"]

\* insertAfter without the search for the ID
insertAfter_again(r, value) ==
  IF value < 0 \/ value >= identifierSpace
  THEN [ring |-> r, res |-> "range"]
  ELSE joined(updateRT(CLL_insert(r, value)), value)

\* CircularLL.h 197-217 CircularLinkedList::insertAfter
insertAfter(r, value) ==
  IF CLL_search(r, value)
  THEN [ring |-> r, res |-> "exists"]
  ELSE IF value < 0 \/ value >= identifierSpace
  THEN [ring |-> r, res |-> "range"]
  ELSE joined(updateRT(CLL_insert(r, value)), value)

\* the unlinking of the node after the one found
unlink_next(r, current) ==
  SubSeq(r, 1, (current % Len(r))) \o SubSeq(r, (current % Len(r)) + 2, Len(r))

\* CircularLL.h 271-283 CircularLinkedList::deletekey (the unlinking)
unlink(r, current) ==
  SubSeq(r, 1, current - 1) \o SubSeq(r, current + 1, Len(r))

\* deletekey without the refresh of the routing tables
afterUnlink_stale(r2) == [ring |-> r2, res |-> "removed"]

\* CircularLL.h 285-289 CircularLinkedList::deletekey (after the unlinking)
afterUnlink(r2) ==
  [ring |-> IF r2 # << >> THEN updateRT(r2) ELSE r2, res |-> "removed"]

\* deletekey without the transfer
transfer_none(r, current, successor) == r

\* CircularLL.h 265-268 CircularLinkedList::deletekey (the transfer)
transfer(r, current, successor) ==
  IF successor # current THEN Traverse_delete(r, current, successor) ELSE r

\* deletekey that rebuilds the routing tables before it unlinks the node
leaveAt_early(r, current) ==
  IF current = 0
  THEN [ring |-> r, res |-> "not_found"]
  ELSE [ring |-> unlink(updateRT(transfer(r, current, next(r, current))), current),
        res  |-> "removed"]

\* CircularLL.h 259-289 CircularLinkedList::deletekey (after the search)
leaveAt(r, current) ==
  IF current = 0
  THEN [ring |-> r, res |-> "not_found"]
  ELSE afterUnlink(unlink(transfer(r, current, next(r, current)), current))

\* deletekey that refuses to remove the only node of the ring
deletekey_guarded(r, value) ==
  IF r = << >>
  THEN [ring |-> r, res |-> "empty_ring"]
  ELSE IF Len(r) = 1
  THEN [ring |-> r, res |-> "not_found"]
  ELSE leaveAt(r, findMachineById(r, value))

\* CircularLL.h 237-290 CircularLinkedList::deletekey
deletekey(r, value) ==
  IF r = << >>
  THEN [ring |-> r, res |-> "empty_ring"]
  ELSE leaveAt(r, findMachineById(r, value))

\* IPFS.h 56-58 IPFS::isValidMachineId
isValidMachineId(id) == id >= 0 /\ id < identifierSpace

\* IPFS.h 64-70 IPFS::InsertMachines (the loop)
RECURSIVE insertEach(_, _, _)
insertEach(r, arr, i) ==
  IF i > Len(arr) THEN r
  ELSE insertEach(IF isValidMachineId(arr[i]) THEN CLL_insert(r, arr[i]) ELSE r,
                  arr, i + 1)

\* the machine at the start of the routing path
lastMachine_first(r, routingPath) ==
  IF routingPath = << >>
  THEN 0
  ELSE findMachineById(r, routingPath[1])

\* CircularLL.h 572-573 CircularLinkedList::InsertFileToTree (the machine at
\* the end of the routing path, 0 when the path is empty)
lastMachine(r, routingPath) ==
  IF routingPath = << >>
  THEN 0
  ELSE findMachineById(r, routingPath[Len(routingPath)])

\* the store that also writes the record into the tree of the next node
storeAt_replicated(r, responsible, fileKey, path) ==
  IF responsible = 0
  THEN [ring |-> r, res |-> "no_route"]
  ELSE IF searchFile(r[responsible].BTreeroot, fileKey)
  THEN [ring |-> r, res |-> "duplicate_key"]
  ELSE [ring |-> [i \in 1..Len(r) |->
                    IF i = responsible \/ i = (responsible % Len(r)) + 1
                    THEN [r[i] EXCEPT !.BTreeroot =
                            insertHelper(@, FileNode(fileKey, path))]
                    ELSE r[i]],
        res  |-> "stored"]

\* CircularLL.h 575-590 CircularLinkedList::InsertFileToTree (at the
\* responsible machine)
storeAt(r, responsible, fileKey, path) ==
  IF responsible = 0
  THEN [ring |-> r, res |-> "no_route"]
  ELSE IF searchFile(r[responsible].BTreeroot, fileKey)
  THEN [ring |-> r, res |-> "duplicate_key"]
  ELSE [ring |-> [r EXCEPT ![responsible].BTreeroot =
                    insertHelper(@, FileNode(fileKey, path))],
        res  |-> "stored"]

\* CircularLL.h 540-594 CircularLinkedList::InsertFileToTree
InsertFileToTree(r, machineKey, fileKey, path) ==
  IF r = << >>
  THEN [ring |-> r, res |-> "empty_ring"]
  ELSE IF ~CLL_search(r, machineKey)
  THEN [ring |-> r, res |-> "no_such_start_node"]
  ELSE storeAt(r, lastMachine(r, routeToKey(r, machineKey, fileKey)),
               fileKey, path)

\* CircularLL.h 622-636 CircularLinkedList::SearchFile_WithMachine (at the
\* responsible machine)
lookAt(r, responsible, fileKey, empty) ==
  IF empty
  THEN [res |-> "no_route", node |-> 0, file |-> NoFile]
  ELSE IF responsible # 0 /\ searchFile(r[responsible].BTreeroot, fileKey)
  THEN [res  |-> "found", node |-> responsible,
        file |-> findFile(r[responsible].BTreeroot, fileKey)]
  ELSE [res |-> "not_found", node |-> 0, file |-> NoFile]

\* CircularLL.h 611-636 CircularLinkedList::SearchFile_WithMachine (after
\* routeToKey)
lookUp(r, routingPath, fileKey) ==
  lookAt(r, lastMachine(r, routingPath), fileKey, routingPath = << >>)

\* CircularLL.h 599-637 CircularLinkedList::SearchFile_WithMachine
SearchFile_WithMachine(r, machineKey, fileKey) ==
  IF r = << >>
  THEN [res |-> "empty_ring", node |-> 0, file |-> NoFile]
  ELSE lookUp(r, routeToKey(r, machineKey, fileKey), fileKey)

\* DeleteFileFromTree that removes without looking the key up first, and
\* reports deleted
removeAt_blind(r, responsible, fileKey) ==
  IF responsible = 0
  THEN [ring |-> r, res |-> "no_route"]
  ELSE [ring |-> [r EXCEPT ![responsible].BTreeroot = deleteHelper(@, fileKey)],
        res  |-> "deleted"]

\* CircularLL.h 665-690 CircularLinkedList::DeleteFileFromTree (at the
\* responsible machine)
removeAt(r, responsible, fileKey) ==
  IF responsible = 0
  THEN [ring |-> r, res |-> "no_route"]
  ELSE IF findFile(r[responsible].BTreeroot, fileKey) = NoFile
  THEN [ring |-> r, res |-> "not_found"]
  ELSE [ring |-> [r EXCEPT ![responsible].BTreeroot = deleteHelper(@, fileKey)],
        res  |-> "deleted"]

\* CircularLL.h 642-691 CircularLinkedList::DeleteFileFromTree
DeleteFileFromTree(r, machineKey, fileKey) ==
  IF r = << >>
  THEN [ring |-> r, res |-> "empty_ring"]
  ELSE removeAt(r, lastMachine(r, routeToKey(r, machineKey, fileKey)), fileKey)

(***************************************************************************)
(* The collaborators of the facade: the inputs main.cpp hands to it.       *)
(***************************************************************************)
\* main.cpp 318-318 insertFile (filePath): the file names the model stores
Names == {"a", "b", "c", "d", "e", "f"}

\* generateHashInSpace(name, identifierSpace): a fixed hash into [0, N);
\* "a" and "b" collide
H(name) ==
  CASE name = "a" -> 0
    [] name = "b" -> 0
    [] name = "c" -> 1
    [] name = "d" -> 6
    [] name = "e" -> 9
    [] name = "f" -> identifierSpace - 1

\* main.cpp 221-221 addMachine (machineId): the machine IDs the full model
\* joins and removes, and two IDs out of range
MachineInputs == {-1, 1, 6, 11, identifierSpace - 1, identifierSpace}

\* main.cpp 264-264 removeMachine (machineId): the machine IDs of the
\* membership-only model: both ends of the space, neighbours, IDs a power of
\* two apart, and two IDs out of range
RingInputs ==
  {-1, 0, 1, 3, 6, 7, 8, 11, 12, 14, identifierSpace - 1, identifierSpace}

\* main.cpp 95-185 initializeSystem (machineIds holds no value twice): the
\* sequences of at most n distinct elements of S
RECURSIVE DistinctSeqs(_, _)
DistinctSeqs(S, n) ==
  IF n = 0 THEN {<< >>}
  ELSE UNION {{q} \cup (IF Len(q) = n - 1
                        THEN {Append(q, x) : x \in S \ {q[i] : i \in 1..Len(q)}}
                        ELSE {}) :
                q \in DistinctSeqs(S, n - 1)}

\* the number of file records in the ring
RECURSIVE totalFilesFrom(_, _)
totalFilesFrom(r, i) ==
  IF i > Len(r) THEN 0
  ELSE countFiles(r[i].BTreeroot) + totalFilesFrom(r, i + 1)

totalFiles(r) == totalFilesFrom(r, 1)

\* what an operation reported: its result, the record it stored or found, and
\* the ID of the machine it added or removed (-1 for none)
Outcome(op, res, file, id) == [op |-> op, res |-> res, file |-> file, id |-> id]

(***************************************************************************)
(* The operations of the facade (IPFS.h), one action each.                 *)
(***************************************************************************)
\* no loop over the ring is running
Idle == [op |-> "idle", current |-> 0, key |-> 0, path |-> << >>, visited |-> {}]

\* IPFS.h 31-41 IPFS::IPFS
Init ==
  /\ ring = << >>
  /\ initialized = FALSE
  /\ out = Outcome("IPFS", "ok", NoFile, -1)
  /\ stored = {}
  /\ walk = Idle

\* IPFS.h 78-105 IPFS (the state after an operation that returned
\* r = [ring, res] and reported file and id, within the caps; history is the
\* new value of stored)
Commit(op, r, file, id, machines, history) ==
  /\ Len(r.ring) <= machines
  /\ totalFiles(r.ring) <= MaxFiles
  /\ ring' = r.ring
  /\ out' = Outcome(op, r.res, file, id)
  /\ stored' = history
  /\ UNCHANGED <<initialized, walk>>

\* IPFS.h 63-73 IPFS::InsertMachines (called once, by initializeSystem)
InsertMachines(arr) ==
  /\ ~initialized
  /\ ring' = updateRT(insertEach(ring, arr, 1))
  /\ initialized' = TRUE
  /\ out' = Outcome("InsertMachines", "ok", NoFile, -1)
  /\ UNCHANGED <<stored, walk>>

\* CircularLL.h 197-217 CircularLinkedList::insertAfter (what it reported)
Joined(r, machineKey, cap) ==
  Commit("InsertMachine", r, NoFile,
         IF r.res = "added" THEN machineKey ELSE -1, cap, stored)

\* IPFS.h 78-84 IPFS::InsertMachine
InsertMachine(machineKey, cap) ==
  /\ initialized
  /\ Joined(IF ~isValidMachineId(machineKey)
            THEN [ring |-> ring, res |-> "range"]
            ELSE insertAfter(ring, machineKey),
            machineKey, cap)

\* the history after a leave: the last machine has no successor to hand its
\* records to
afterLeave(r) == IF r.ring = << >> THEN {} ELSE stored

\* CircularLL.h 237-290 CircularLinkedList::deletekey (what it reported, and
\* the history)
Left(r, machineKey) ==
  Commit("DeleteMachine", r, NoFile,
         IF r.res = "removed" THEN machineKey ELSE -1, Len(ring), afterLeave(r))

\* IPFS.h 89-91 IPFS::DeleteMachine
DeleteMachine(machineKey) ==
  /\ initialized
  /\ Left(deletekey(ring, machineKey), machineKey)

\* CircularLL.h 540-594 CircularLinkedList::InsertFileToTree (and the history:
\* file is the record of the call)
Put(r, file) ==
  IF r.res = "stored"
  THEN Commit("insertFile", r, file, -1, Len(ring), stored \cup {file})
  ELSE Commit("insertFile", r, NoFile, -1, Len(ring), stored)

\* IPFS.h 96-98 IPFS::insertFile (with the key main.cpp computes from the path)
insertFile(machineKey, name) ==
  /\ initialized
  /\ Put(InsertFileToTree(ring, machineKey, H(name), name),
         FileNode(H(name), name))

\* CircularLL.h 642-691 CircularLinkedList::DeleteFileFromTree (and the
\* history: the record of that key is no longer expected)
Del(r, fileKey) ==
  Commit("DeleteFile", r, NoFile, -1, Len(ring),
         IF r.res = "deleted" THEN {f \in stored : f.key # fileKey} ELSE stored)

\* IPFS.h 103-105 IPFS::DeleteFile
DeleteFile(machineKey, name) ==
  /\ initialized
  /\ Del(DeleteFileFromTree(ring, machineKey, H(name)), H(name))

\* IPFS.h 110-112 IPFS::SearchFile (the state after a search that returned
\* r = [res, node, file])
Report(r) ==
  /\ out' = Outcome("SearchFile", r.res, r.file, -1)
  /\ UNCHANGED <<ring, initialized, stored, walk>>

\* IPFS.h 110-112 IPFS::SearchFile
SearchFile(machineKey, name) ==
  /\ initialized
  /\ Report(SearchFile_WithMachine(ring, machineKey, H(name)))

\* main.cpp 527-600 main (the menu loop): the full model, membership and
\* files, over MachineInputs and Names
Next ==
  \/ \E arr \in DistinctSeqs(MachineInputs, MaxMachines) :
       arr # << >> /\ InsertMachines(arr)
  \/ \E id \in MachineInputs : InsertMachine(id, MaxMachines)
  \/ \E id \in MachineInputs : DeleteMachine(id)
  \/ \E id \in MachineInputs, name \in Names : insertFile(id, name)
  \/ \E id \in MachineInputs, name \in Names : DeleteFile(id, name)
  \/ \E id \in MachineInputs, name \in Names : SearchFile(id, name)

\* main.cpp 521-605 main
Spec == Init /\ [][Next]_vars

\* main.cpp 527-558 main (the menu loop, the membership cases): the
\* membership-only model, more machines over more IDs, no files
NextRing ==
  \/ \E arr \in DistinctSeqs(RingInputs, MaxInit) :
       arr # << >> /\ InsertMachines(arr)
  \/ \E id \in RingInputs : InsertMachine(id, MaxRing)
  \/ \E id \in RingInputs : DeleteMachine(id)

\* main.cpp 521-605 main (membership only)
SpecRing == Init /\ [][NextRing]_vars

(***************************************************************************)
(* The vocabulary of the properties, defined apart from the code's own     *)
(* successor, interval and enumeration functions.                          *)
(***************************************************************************)
\* the IDs of the live nodes
ids(r) == {r[i].key : i \in 1..Len(r)}

\* the node whose next is node i
predOf(r, i) == IF i = 1 THEN Len(r) ELSE i - 1

\* the number of steps up the identifier circle from a to b, in 1..N
\* (N from a to a itself)
arc(a, b) == ((b - a - 1) % identifierSpace) + 1

\* k lies in (a, b] modulo N; (a, a] is the whole circle
inArc(k, a, b) == arc(a, k) <= arc(a, b)

\* the ID of the successor of k: the first live ID at or after k on the circle
responsible_for(r, k) ==
  CHOOSE id \in ids(r) :
    \A o \in ids(r) : (id - k) % identifierSpace <= (o - k) % identifierSpace

\* the records of a B-tree, in key order of an in-order walk
RECURSIVE enumerate(_)
RECURSIVE enumerateFrom(_, _)
enumerateFrom(n, i) ==
  IF i > n.count THEN << >>
  ELSE <<n.value[i]>> \o enumerate(n.child[i]) \o enumerateFrom(n, i + 1)

enumerate(n) ==
  IF n = NIL THEN << >> ELSE enumerate(n.child[0]) \o enumerateFrom(n, 1)

\* the records of all live nodes from node i on, one after the other
RECURSIVE recordsFrom(_, _)
recordsFrom(r, i) ==
  IF i > Len(r) THEN << >>
  ELSE enumerate(r[i].BTreeroot) \o recordsFrom(r, i + 1)

\* how often key k occurs in a sequence of records
occurrences(q, k) == Cardinality({j \in 1..Len(q) : q[j].key = k})

\* every record of the sequence q has its key in (a, b]
allInArc(q, a, b) == \A j \in 1..Len(q) : inArc(q[j].key, a, b)

\* every record of the sequence q has its key in [0, N)
allInSpace(q) == \A j \in 1..Len(q) : q[j].key \in 0..(identifierSpace - 1)

\* some record of the sequence q has a key above id
someAbove(q, id) == \E j \in 1..Len(q) : q[j].key > id

(***************************************************************************)
(* C1: authority.                                                          *)
(***************************************************************************)
\* C1 (authority): in every state reached by joins, leaves, puts and dels
\* from an initial ring of distinct IDs without records, every record in the
\* B-tree of a live node n with predecessor p has its key in (p.id, n.id]
\* modulo N, and the only live node holds keys of [0, N).
C1_Authority ==
  \A i \in 1..Len(ring) :
    IF Len(ring) = 1
    THEN allInSpace(enumerate(ring[i].BTreeroot))
    ELSE allInArc(enumerate(ring[i].BTreeroot),
                  ring[predOf(ring, i)].key, ring[i].key)

\* C1 witness: a join has just handed records over in a ring of three nodes,
\* two of which hold records, one of them a record of the wrap-around
\* interval (its key is above its node's ID).
C1_Witness ==
  /\ out.op = "InsertMachine" /\ out.res = "added"
  /\ Len(ring) = 3
  /\ Cardinality({i \in 1..Len(ring) : ring[i].BTreeroot # NIL}) >= 2
  /\ \E i \in 1..Len(ring) : someAbove(enumerate(ring[i].BTreeroot), ring[i].key)

(***************************************************************************)
(* C2: router soundness.                                                   *)
(***************************************************************************)
\* the last ID of a non-empty path, -1 for the empty path
lastId(path) == IF path = << >> THEN -1 ELSE path[Len(path)]

\* C2 (router soundness): in every reachable state with a non-empty ring,
\* from every live start node s and for every key k in [0, N), the last ID of
\* routeToKey(s, k) is the ID of the successor of k.
C2_RouterSoundness ==
  \A s \in 1..Len(ring) : \A k \in 0..(identifierSpace - 1) :
    lastId(routeToKey(ring, ring[s].key, k)) = responsible_for(ring, k)

\* C2 witness: a ring of four nodes in which some route takes a finger jump
\* over a node and then one more hop to the node responsible.
C2_Witness ==
  /\ Len(ring) = 4
  /\ \E s \in 1..Len(ring) : \E k \in 0..(identifierSpace - 1) :
       /\ Len(routeToKey(ring, ring[s].key, k)) = 3
       /\ routeToKey(ring, ring[s].key, k)[2] # ring[next(ring, s)].key

(***************************************************************************)
(* C3: finger correctness.                                                 *)
(***************************************************************************)
\* C3 (finger correctness): after the initial setup and after every join or
\* leave that leaves the ring non-empty, every live node has m fingers and
\* finger i of node n caches the ID of the successor of (n.id + 2^i) mod N
\* under the current membership, and points to the node with that ID.
C3_FingerCorrectness ==
  \A n \in 1..Len(ring) :
    /\ Len(ring[n].RT) = Bits
    /\ \A i \in 0..(Bits - 1) :
         /\ ring[n].RT[i + 1].machinekey =
              responsible_for(ring, (ring[n].key + 2^i) % identifierSpace)
         /\ ring[n].RT[i + 1].m \in 1..Len(ring)
         /\ ring[ring[n].RT[i + 1].m].key = ring[n].RT[i + 1].machinekey

\* C3 witness: a leave has just left two or more nodes, one of which has a
\* finger whose target wraps past zero to the smallest ID.
C3_Witness ==
  /\ out.op = "DeleteMachine" /\ out.res = "removed"
  /\ Len(ring) >= 2
  /\ \E n \in 1..Len(ring) : \E i \in 1..Bits :
       /\ ring[n].RT[i].filekey < ring[n].key
       /\ ring[n].RT[i].machinekey = ring[1].key
       /\ ring[n].RT[i].filekey <= ring[1].key

(***************************************************************************)
(* C4: uniqueness.                                                         *)
(***************************************************************************)
\* no key occurs twice in the sequence of records q
keysOnce(q) == \A j \in 1..Len(q) : occurrences(q, q[j].key) = 1

\* C4 (uniqueness): in every state reached by joins, leaves, puts and dels,
\* the records enumerated from the B-trees of all live nodes hold every
\* stored key exactly once: no key in two nodes, none twice in one node.
C4_Uniqueness == keysOnce(recordsFrom(ring, 1))

\* C4 witness: a put of a key that is already stored has just been refused
\* in a ring of two or more nodes holding three or more records.
C4_Witness ==
  /\ out.op = "insertFile" /\ out.res = "duplicate_key"
  /\ Len(ring) >= 2
  /\ Len(recordsFrom(ring, 1)) >= 3

(***************************************************************************)
(* C5: ring order.                                                         *)
(***************************************************************************)
\* the nodes after which next does not lead to a larger ID
wraps(r) == {i \in 1..Len(r) : r[next(r, i)].key <= r[i].key}

\* C5 (ring order): after any joins and leaves, the walk along next from any
\* live node passes the IDs in ascending order with exactly one wrap, from
\* the largest ID to the smallest.  (That the walk visits every live node
\* once and returns is the shape of the ring as a sequence.)
C5_RingOrder ==
  ring # << >> =>
    /\ Cardinality(wraps(ring)) = 1
    /\ \A i \in wraps(ring) :
         /\ \A j \in 1..Len(ring) : ring[j].key <= ring[i].key
         /\ \A j \in 1..Len(ring) : ring[next(ring, i)].key <= ring[j].key

\* C5 witness: a join has just put a new smallest ID in front of three others.
C5_Witness ==
  /\ out.op = "InsertMachine" /\ out.res = "added"
  /\ Len(ring) = 4
  /\ ring[1].RT[1].machinekey = ring[2].key
  /\ ring[1].key = 0

(***************************************************************************)
(* C6: unique IDs.                                                         *)
(***************************************************************************)
\* C6 (unique IDs): after the initial bulk insertion of distinct IDs and any
\* joins and leaves, no two live nodes have the same ID.
C6_UniqueIds ==
  \A i, j \in 1..Len(ring) : i # j => ring[i].key # ring[j].key

\* C6 witness: a join with the ID of a live node has just been refused in a
\* ring of four nodes.
C6_Witness ==
  /\ out.op = "InsertMachine" /\ out.res = "exists"
  /\ Len(ring) = 4

(***************************************************************************)
(* C7: round trip.                                                         *)
(***************************************************************************)
\* a search that returned res found the record f
finds(res, f) == res.res = "found" /\ res.file = f

\* C7 (round trip): when a put from a live node s has just stored (k, path),
\* a get of k from any live node s2 as the very next operation reports
\* found, with the record that was stored.
C7_RoundTrip ==
  [][\A s2 \in MachineInputs : \A n2 \in Names :
       (/\ out.op = "insertFile" /\ out.res = "stored"
        /\ H(n2) = out.file.key
        /\ CLL_search(ring, s2)
        /\ SearchFile(s2, n2))
       => (out'.res = "found" /\ out'.file = out.file)]_vars

\* C7 witness: a put has just stored a record in a ring of three nodes, and
\* the get of its key from some live node takes two hops and finds it.
C7_Witness ==
  /\ out.op = "insertFile" /\ out.res = "stored"
  /\ Len(ring) = 3
  /\ \E s2 \in 1..Len(ring) :
       /\ Len(routeToKey(ring, ring[s2].key, out.file.key)) = 3
       /\ finds(SearchFile_WithMachine(ring, ring[s2].key, out.file.key), out.file)

(***************************************************************************)
(* C8: visibility across membership changes.                               *)
(***************************************************************************)
\* C8 (visibility): always, for every record put and not deleted since, over
\* any joins and any leaves that had a successor to hand the records to, a
\* get of its key from every live node finds that record, with its path.
C8_Visibility ==
  \A f \in stored : \A s \in 1..Len(ring) :
    finds(SearchFile_WithMachine(ring, ring[s].key, f.key), f)

\* C8 witness: a leave has just handed records over, two nodes remain, two or
\* more records are expected and the ring holds exactly the expected records.
C8_Witness ==
  /\ out.op = "DeleteMachine" /\ out.res = "removed"
  /\ Len(ring) = 2
  /\ Cardinality(stored) >= 2
  /\ Len(recordsFrom(ring, 1)) = Cardinality(stored)

(***************************************************************************)
(* C9 and C10: the hand-off on join and on leave.                          *)
(***************************************************************************)
\* the node with this ID
indexOf(r, id) == CHOOSE i \in 1..Len(r) : r[i].key = id

\* the records of a sequence as a multiset
bag(q) ==
  [f \in {q[j] : j \in 1..Len(q)} |-> Cardinality({j \in 1..Len(q) : q[j] = f})]

\* of the records before, exactly those with key in (a, b] are the records
\* moved and all others are the records kept
splitAt(before, moved, kept, a, b) ==
  /\ bag(moved) = bag(SelectSeq(before, LAMBDA f : inArc(f.key, a, b)))
  /\ bag(kept) = bag(SelectSeq(before, LAMBDA f : ~inArc(f.key, a, b)))

\* the join that took r to r2 put node n between p and s and split the
\* records of s at (p.id, n.id]
joinSplit(r, r2, n, p, s) ==
  /\ r2[p].key \in ids(r) /\ r2[s].key \in ids(r)
  /\ splitAt(enumerate(r[indexOf(r, r2[s].key)].BTreeroot),
             enumerate(r2[n].BTreeroot), enumerate(r2[s].BTreeroot),
             r2[p].key, r2[n].key)

\* C9 (join hand-off): when a join of new_id succeeds on a non-empty ring,
\* with p the predecessor and s the successor of new_id after the splice,
\* new_id then holds precisely the records s held with key in
\* (p.id, new_id] modulo N and s holds precisely its other records; also
\* when new_id is the smallest or the largest ID and when p = s.
C9_JoinHandOff ==
  [][(out'.op = "InsertMachine" /\ out'.res = "added" /\ ring # << >>)
       => joinSplit(ring, ring', indexOf(ring', out'.id),
                    predOf(ring', indexOf(ring', out'.id)),
                    next(ring', indexOf(ring', out'.id)))]_vars

\* C9 witness: a join has just put a new smallest ID into a ring of one node
\* (p = s), took its records of the wrap-around interval and left it others.
C9_Witness ==
  /\ out.op = "InsertMachine" /\ out.res = "added"
  /\ Len(ring) = 2
  /\ ring[1].BTreeroot # NIL /\ ring[2].BTreeroot # NIL
  /\ someAbove(enumerate(ring[indexOf(ring, out.id)].BTreeroot), out.id)

\* the multiset union of the records of two sequences
both(q1, q2) == bag(q1 \o q2)

\* the leave that took r to r2 removed node d of r, and node s2 of r2, its
\* former successor, holds its own records and those of d; nothing is lost
\* and no key is held twice
leaveMerge(r, r2, d, s2) ==
  /\ r2[s2].key = r[next(r, d)].key
  /\ bag(enumerate(r2[s2].BTreeroot)) =
       both(enumerate(r[d].BTreeroot), enumerate(r[next(r, d)].BTreeroot))
  /\ bag(recordsFrom(r2, 1)) = bag(recordsFrom(r, 1))
  /\ keysOnce(recordsFrom(r2, 1))

\* C10 (leave hand-off): when a leave removes a live node from a ring of two
\* or more nodes, its former successor then holds every record the departed
\* node held together with all the records it held itself; no key is lost
\* and none is duplicated.
C10_LeaveHandOff ==
  [][(out'.op = "DeleteMachine" /\ out'.res = "removed" /\ Len(ring) >= 2)
       => leaveMerge(ring, ring', indexOf(ring, out'.id),
                     indexOf(ring', ring[next(ring, indexOf(ring, out'.id))].key))]_vars

\* C10 witness: the node with the largest ID has just left a ring of three
\* nodes, leaving a record with a key of its own interval to the wrap-around
\* successor, which holds two or more records.
C10_Witness ==
  /\ out.op = "DeleteMachine" /\ out.res = "removed"
  /\ Len(ring) = 2
  /\ out.id > ring[2].key
  /\ Len(enumerate(ring[1].BTreeroot)) >= 2
  /\ \E j \in 1..Len(enumerate(ring[1].BTreeroot)) :
       /\ enumerate(ring[1].BTreeroot)[j].key > ring[2].key
       /\ enumerate(ring[1].BTreeroot)[j].key <= out.id

(***************************************************************************)
(* The B-tree on its own: one machine, whose tree takes inserts and        *)
(* removes directly (BTree::insertHelper, BTree::deleteHelper) and through *)
(* the facade.                                                             *)
(***************************************************************************)
\* the keys of the B-tree model are 0..MaxKey
MaxKey == 7

\* main.cpp 106-106 initializeSystem (id): the machine the B-tree model
\* starts with
TreeHost == 5

\* main.cpp 221-221 addMachine (machineId): the machine that joins and leaves
\* in the B-tree model, taking over the keys up to its ID
TreeGuest == 2

\* main.cpp 325-325 insertFile (fileKey): the keys handed to the tree
TreeKeys == 0..MaxKey

\* main.cpp 318-325 insertFile (filePath, fileKey): the records handed to the
\* tree, one path for every key and a second one for the first and last key
TreeFiles ==
  {FileNode(k, "p") : k \in TreeKeys} \cup {FileNode(k, "q") : k \in {0, MaxKey}}

\* BTree.h 268-271 BTree::setval (the message: the key already exists)
RECURSIVE alreadyExists(_, _)
alreadyExistsAt(key, n, s) ==
  IF s.found THEN TRUE ELSE alreadyExists(key, n.child[s.pos])

\* BTree.h 260-271 BTree::setval (whether a call for this key prints that
\* the key already exists)
alreadyExists(key, n) ==
  IF n = NIL THEN FALSE ELSE alreadyExistsAt(key, n, searchNode(key, n))

\* BTree.h 349-350 BTree::del (the message: value not found)
valueNotFound(file_key, node) ==
  node # NIL /\ ~delhelp(file_key, node).flag

\* main.cpp 49-197 initializeSystem (with one machine)
InitTree ==
  /\ ring = updateRT(insertEach(<< >>, <<TreeHost>>, 1))
  /\ initialized = TRUE
  /\ out = Outcome("InsertMachines", "ok", NoFile, -1)
  /\ stored = {}
  /\ walk = Idle

\* the map a B-tree stands for, after insert(f): a key once in keeps its path
mapInsert(map, f) ==
  IF \E g \in map : g.key = f.key THEN map ELSE map \cup {f}

\* the map a B-tree stands for, after remove(key)
mapRemove(map, key) == {g \in map : g.key # key}

\* BTree.h 485-487 BTree::insertHelper (on the tree of machine n, and what it
\* printed)
insertHelperAt(n, f) ==
  /\ ring' = [ring EXCEPT ![n].BTreeroot = insertHelper(@, f)]
  /\ out' = Outcome("insertHelper",
                    IF alreadyExists(f.key, ring[n].BTreeroot)
                    THEN "duplicate_key" ELSE "stored", NoFile, -1)
  /\ stored' = mapInsert(stored, f)
  /\ UNCHANGED <<initialized, walk>>

\* BTree.h 485-487 BTree::insertHelper (called on the tree of the machine
\* responsible for the key)
BTreeInsert(f) == insertHelperAt(succ(ring, f.key), f)

\* BTree.h 489-491 BTree::deleteHelper (on the tree of machine n, and what it
\* printed)
deleteHelperAt(n, file_key) ==
  /\ ring' = [ring EXCEPT ![n].BTreeroot = deleteHelper(@, file_key)]
  /\ out' = Outcome("deleteHelper",
                    IF ring[n].BTreeroot = NIL
                       \/ valueNotFound(file_key, ring[n].BTreeroot)
                    THEN "not_found" ELSE "deleted", NoFile, -1)
  /\ stored' = mapRemove(stored, file_key)
  /\ UNCHANGED <<initialized, walk>>

\* BTree.h 489-491 BTree::deleteHelper (called on the tree of the machine
\* responsible for the key)
BTreeDelete(file_key) == deleteHelperAt(succ(ring, file_key), file_key)

\* IPFS.h 78-105 IPFS (the state after an operation that returned
\* r = [ring, res] and reported id; history is the new value of stored)
CommitTree(op, r, id, history) ==
  /\ ring' = r.ring
  /\ out' = Outcome(op, r.res, NoFile, id)
  /\ stored' = history
  /\ UNCHANGED <<initialized, walk>>

\* IPFS.h 96-98 IPFS::insertFile (what it did to the map)
PutTree(r, f) ==
  CommitTree("insertFile", r, -1,
             IF r.res = "stored" THEN mapInsert(stored, f) ELSE stored)

\* IPFS.h 96-98 IPFS::insertFile (from the first machine, with any key)
TreePut(f) == PutTree(InsertFileToTree(ring, TreeHost, f.key, f.path), f)

\* IPFS.h 103-105 IPFS::DeleteFile (what it did to the map)
DelTree(r, file_key) ==
  CommitTree("DeleteFile", r, -1,
             IF r.res = "deleted" THEN mapRemove(stored, file_key) ELSE stored)

\* IPFS.h 103-105 IPFS::DeleteFile (from the first machine, with any key)
TreeDel(file_key) ==
  DelTree(DeleteFileFromTree(ring, TreeHost, file_key), file_key)

\* IPFS.h 78-84 IPFS::InsertMachine (of the guest)
TreeJoin == CommitTree("InsertMachine", insertAfter(ring, TreeGuest), -1, stored)

\* IPFS.h 89-91 IPFS::DeleteMachine (of the guest)
TreeLeave == CommitTree("DeleteMachine", deletekey(ring, TreeGuest), -1, stored)

\* main.cpp 551-570 main (the menu loop, on one machine and a guest)
NextTree ==
  \/ \E f \in TreeFiles : BTreeInsert(f)
  \/ \E k \in TreeKeys : BTreeDelete(k)
  \/ \E f \in TreeFiles : TreePut(f)
  \/ \E k \in TreeKeys : TreeDel(k)
  \/ TreeJoin
  \/ TreeLeave

\* main.cpp 521-605 main (one machine and a guest, files of few keys)
SpecTree == InitTree /\ [][NextTree]_vars

(***************************************************************************)
(* C11 and C12: membership idempotence.                                    *)
(***************************************************************************)
\* two nodes have the same ID, the same finger table and the same records
sameNode(n1, n2) ==
  /\ n1.key = n2.key
  /\ n1.RT = n2.RT
  /\ bag(enumerate(n1.BTreeroot)) = bag(enumerate(n2.BTreeroot))

\* two rings have the same IDs in the same order from head, the same finger
\* tables and the same records on every node
sameStructure(r1, r2) ==
  /\ Len(r1) = Len(r2)
  /\ \A i \in 1..Len(r1) : i <= Len(r2) /\ sameNode(r1[i], r2[i])

\* join(x) then leave(x), from ring r, each reporting success, end in a ring
\* of the same structure as r
joinLeave(r, j, x) ==
  /\ j.res = "added"
  /\ deletekey(j.ring, x).res = "removed"
  /\ sameStructure(r, deletekey(j.ring, x).ring)

\* C11 (join then leave): in every reachable state, for every in-range x that
\* is not a live ID, join(x) immediately followed by leave(x) ends in a ring
\* with the same live IDs in the same order, the same finger tables and the
\* same records on each node.
C11_JoinThenLeave ==
  \A x \in MachineInputs :
    (isValidMachineId(x) /\ x \notin ids(ring))
      => joinLeave(ring, insertAfter(ring, x), x)

\* the join of x into r takes records over from its successor
takesOver(j, x) == j.ring[indexOf(j.ring, x)].BTreeroot # NIL

\* C11 witness: x has just left a ring in which two nodes remain, and a join
\* of x would take records over from its successor again.
C11_Witness ==
  /\ out.op = "DeleteMachine" /\ out.res = "removed"
  /\ Len(ring) = 2
  /\ isValidMachineId(out.id) /\ out.id \notin ids(ring)
  /\ takesOver(insertAfter(ring, out.id), out.id)

\* leave(x) then join(x), from ring r, each reporting success, end in a ring
\* of the same structure as r
leaveJoin(r, l, x) ==
  /\ l.res = "removed"
  /\ insertAfter(l.ring, x).res = "added"
  /\ sameStructure(r, insertAfter(l.ring, x).ring)

\* C12 as stated (leave then join, for every live x): in every reachable
\* state, leave(x) immediately followed by join(x) ends in a ring with the
\* same live IDs in the same order, the same finger tables and the same
\* records on each node.
C12_LeaveThenJoin_AsStated ==
  \A x \in ids(ring) : leaveJoin(ring, deletekey(ring, x), x)

\* C12 (leave then join, amended): the same for every live x that is not
\* the only node, or holds no records; the records of the only node are
\* destroyed with it, and the rejoined node starts without records.
C12_LeaveThenJoin ==
  \A x \in ids(ring) :
    (Len(ring) >= 2 \/ ring[indexOf(ring, x)].BTreeroot = NIL)
      => leaveJoin(ring, deletekey(ring, x), x)

\* C12 witness: x has just joined as the smallest ID of three, took records
\* over, and a leave of x would hand them to its successor again.
C12_Witness ==
  /\ out.op = "InsertMachine" /\ out.res = "added"
  /\ Len(ring) = 3
  /\ ring[1].key = out.id
  /\ ring[1].BTreeroot # NIL
  /\ ring[2].BTreeroot # NIL

(***************************************************************************)
(* C13, C14, C15: the shape of every B-tree.                               *)
(***************************************************************************)
\* the fewest records of a node that is not the root: ceil(t/2) - 1
minRecords == ((Order + 1) \div 2) - 1

\* every node under n holds at most t-1 records, and at least least records
\* when it is n itself, at least ceil(t/2)-1 below
RECURSIVE occupied(_, _)
occupied(n, least) ==
  \/ n = NIL
  \/ /\ n.count <= Order - 1
     /\ n.count >= least
     /\ \A i \in 0..n.count : occupied(n.child[i], minRecords)

\* C13 (occupancy): after any inserts and removes, those of the hand-off on
\* join and leave included, every node of every B-tree holds at most t-1
\* records, every node but the root at least ceil(t/2)-1, and the root of a
\* tree that is not empty at least 1.
C13_Occupancy ==
  \A m \in 1..Len(ring) : occupied(ring[m].BTreeroot, 1)

\* the number of levels of a tree along its leftmost branch
RECURSIVE levels(_)
levels(n) == IF n = NIL THEN 0 ELSE 1 + levels(n.child[0])

\* C13 witness: a remove has just left a tree of three levels with seven
\* records, every node of which holds the minimum, the root included.
C13_Witness ==
  /\ out.op = "deleteHelper" /\ out.res = "deleted"
  /\ \E m \in 1..Len(ring) :
       /\ levels(ring[m].BTreeroot) = 3
       /\ Len(enumerate(ring[m].BTreeroot)) = 7
       /\ ring[m].BTreeroot.child[0].count = minRecords

\* the keys of the records under n
RECURSIVE keysUnder(_)
keysUnder(n) ==
  IF n = NIL THEN {}
  ELSE {n.value[i].key : i \in 1..n.count}
         \cup UNION {keysUnder(n.child[i]) : i \in 0..n.count}

\* the records of every node under n ascend strictly, and record i of a node
\* lies above all keys under child i-1 and below all keys under child i
RECURSIVE ordered(_)
ordered(n) ==
  \/ n = NIL
  \/ /\ \A i \in 1..(n.count - 1) : n.value[i].key < n.value[i + 1].key
     /\ \A i \in 1..n.count :
          /\ \A k \in keysUnder(n.child[i - 1]) : k < n.value[i].key
          /\ \A k \in keysUnder(n.child[i]) : k > n.value[i].key
     /\ \A i \in 0..n.count : ordered(n.child[i])

\* the keys of the sequence of records q ascend strictly
ascending(q) == \A j \in 1..(Len(q) - 1) : q[j].key < q[j + 1].key

\* C14 (ordering): after any inserts and removes, the records inside every
\* node ascend strictly by key, every key under child[i-1] is smaller and
\* every key under child[i] is larger than value[i].key, and the in-order
\* walk yields strictly increasing keys.
C14_Ordering ==
  \A m \in 1..Len(ring) :
    ordered(ring[m].BTreeroot) /\ ascending(enumerate(ring[m].BTreeroot))

\* C14 witness: a remove has just taken one of MaxKey + 1 records out of a
\* tree that has two levels now.
C14_Witness ==
  /\ out.op = "deleteHelper" /\ out.res = "deleted"
  /\ Len(ring) = 1
  /\ levels(ring[1].BTreeroot) = 2
  /\ Len(enumerate(ring[1].BTreeroot)) = MaxKey

\* the depths of the leaves under n, n being at depth d
RECURSIVE leafDepths(_, _)
leafDepths(n, d) ==
  IF n = NIL THEN {}
  ELSE IF \A i \in 0..n.count : n.child[i] = NIL
  THEN {d}
  ELSE UNION {leafDepths(n.child[i], d + 1) : i \in 0..n.count}

\* every node under n is a leaf (no child) or has all its count+1 children
RECURSIVE branching(_)
branching(n) ==
  \/ n = NIL
  \/ /\ DOMAIN n.child = 0..n.count
     /\ \/ \A i \in 0..n.count : n.child[i] = NIL
        \/ \A i \in 0..n.count : n.child[i] # NIL
     /\ \A i \in 0..n.count : branching(n.child[i])

\* C15 (balance): after any inserts and removes, all leaves of a B-tree are
\* at the same depth, every internal node with c records has exactly c+1
\* children (children 0..c, none null) and a leaf has none.
C15_Balance ==
  \A m \in 1..Len(ring) :
    /\ Cardinality(leafDepths(ring[m].BTreeroot, 0)) <= 1
    /\ branching(ring[m].BTreeroot)

\* C15 witness: an insert has just split the root of a tree of two levels:
\* three levels, seven records.
C15_Witness ==
  /\ out.op = "insertHelper" /\ out.res = "stored"
  /\ Len(ring) = 1
  /\ levels(ring[1].BTreeroot) = 3
  /\ leafDepths(ring[1].BTreeroot, 0) = {2}


(***************************************************************************)
(* C16: the B-tree as a map from key to record.                            *)
(***************************************************************************)
\* the record of a map for a key, NoFile when the map has none
mapGet(map, key) ==
  IF \E g \in map : g.key = key
  THEN CHOOSE g \in map : g.key = key
  ELSE NoFile

\* what find must return for key k on machine m, by the records inserted and
\* not removed
expected(m, k) ==
  IF ring[m].key = responsible_for(ring, k) THEN mapGet(stored, k) ELSE NoFile

\* C16 (B-tree as a map): after any sequence of inserts and removes, find(k)
\* on the tree of the machine that answers for k returns a record exactly
\* when k was inserted and not removed since, and that record carries the
\* path given when k was inserted; no other tree has a record for k.
C16_Map ==
  \A k \in TreeKeys : \A m \in 1..Len(ring) :
    findFile(ring[m].BTreeroot, k) = expected(m, k)

\* C16 witness: a remove has just succeeded on a tree of two levels or more
\* that still holds five records or more, one of them key 0 with the path
\* "q" it was inserted with, and find returns that record.
C16_Witness ==
  /\ out.op = "deleteHelper" /\ out.res = "deleted"
  /\ Len(ring) = 1
  /\ Cardinality(stored) >= 5
  /\ levels(ring[1].BTreeroot) >= 2
  /\ findFile(ring[1].BTreeroot, 0) = FileNode(0, "q")

(***************************************************************************)
(* C17, C18: inserts of a key that is held and removes of one that is not. *)
(***************************************************************************)
\* key k has been inserted and not removed since
present(k) == \E g \in stored : g.key = k

\* nothing held has changed and the operation said what it found
rejected(res) == ring' = ring /\ stored' = stored /\ out'.res = res

\* C17 (duplicate key): an insert of a key that was inserted and not removed
\* since, called on the tree directly or through a put, with the same path
\* or another, leaves every tree as it was, the stored path included, and
\* reports the duplicate.
C17_Duplicate ==
  [][\/ rejected("duplicate_key")
     \/ \A f \in TreeFiles :
          present(f.key) =>
            /\ ~(out'.op = "insertHelper" /\ BTreeInsert(f))
            /\ ~(out'.op = "insertFile" /\ TreePut(f))]_vars

\* C17 witness: an insert on the tree itself has just been turned down as a
\* duplicate, on a tree of two levels that holds key 0 under the path "q",
\* one of the two paths offered for that key.
C17_Witness ==
  /\ out.op = "insertHelper" /\ out.res = "duplicate_key"
  /\ Len(ring) = 1
  /\ levels(ring[1].BTreeroot) = 2
  /\ findFile(ring[1].BTreeroot, 0) = FileNode(0, "q")

\* C18 (remove of a missing key): a remove of a key that was never inserted,
\* or was removed since, called on
\* the tree directly or through a delete, leaves the ring, the finger tables
\* and every tree as they were and reports that nothing was found.
C18_DeleteMissing ==
  [][\/ rejected("not_found")
     \/ \A k \in TreeKeys :
          ~present(k) =>
            /\ ~(out'.op = "deleteHelper" /\ BTreeDelete(k))
            /\ ~(out'.op = "DeleteFile" /\ TreeDel(k))]_vars

\* C18 witness: a delete through the ring has just reported not found on a
\* ring of two machines whose trees hold four records or more.
C18_Witness ==
  /\ out.op = "DeleteFile" /\ out.res = "not_found"
  /\ Len(ring) = 2
  /\ Cardinality(stored) >= 4

(***************************************************************************)
(* C19, C20: joins and leaves that fail validation.                        *)
(***************************************************************************)
\* the step has left the ring, its finger tables, the trees and the history
\* as they were and has reported one of the errors
refused(errors) == ring' = ring /\ stored' = stored /\ out'.res \in errors

\* C19 (join validation): a join with an ID outside [0, 2^m - 1], or with
\* the ID of a live node, leaves the set of nodes, the finger tables and the
\* records as they were and reports an error.
C19_JoinRefused ==
  [][out'.op = "InsertMachine" =>
       \A id \in MachineInputs :
         (/\ ~isValidMachineId(id) \/ id \in ids(ring)
          /\ InsertMachine(id, MaxMachines))
           => refused({"range", "exists"})]_vars

\* C19 witness: a join has just been refused because the ID is live, on a
\* ring of two nodes or more that holds records.
C19_Witness ==
  /\ out.op = "InsertMachine" /\ out.res = "exists"
  /\ Len(ring) >= 2
  /\ stored # {}

\* C20 (leave validation): a leave on an empty ring, or with an ID that is
\* not live, leaves the set of nodes, the finger tables and the records as
\* they were and reports an error.
C20_LeaveRefused ==
  [][out'.op = "DeleteMachine" =>
       \A id \in MachineInputs :
         (/\ ring = << >> \/ id \notin ids(ring)
          /\ DeleteMachine(id))
           => refused({"empty_ring", "not_found"})]_vars

\* C20 witness: a leave has just been refused because no node has the ID, on
\* a ring of two nodes or more that holds records.
C20_Witness ==
  /\ out.op = "DeleteMachine" /\ out.res = "not_found"
  /\ Len(ring) >= 2
  /\ stored # {}

(***************************************************************************)
(* C21: file operations from an origin that is not a live node.            *)
(***************************************************************************)
\* no live node has the ID the operation starts from (the empty ring has
\* no live node)
invalidOrigin(id) == ring = << >> \/ id \notin ids(ring)

\* what an operation reports from an invalid origin: the empty ring first,
\* otherwise the error of the operation itself
originError(other) == IF ring = << >> THEN "empty_ring" ELSE other

\* a put or a delete that changed nothing and reported res
unchanged(res) == [ring |-> ring, res |-> res]

\* a get that found nothing and reported res
absent(res) == [res |-> res, node |-> 0, file |-> NoFile]

\* C21 (invalid origin): in every reachable state, a put, a get or a delete
\* issued on an empty ring, or from a start ID no live node has, reports an
\* error (the put empty_ring or no_such_start_node; the get nothing found,
\* the delete failure), the route from that origin is the empty path, and
\* the ring, the finger tables and the trees are as they were.
C21_InvalidOrigin ==
  \A id \in MachineInputs : invalidOrigin(id) =>
    \A name \in Names :
      /\ routeToKey(ring, id, H(name)) = << >>
      /\ InsertFileToTree(ring, id, H(name), name)
           = unchanged(originError("no_such_start_node"))
      /\ SearchFile_WithMachine(ring, id, H(name))
           = absent(originError("no_route"))
      /\ DeleteFileFromTree(ring, id, H(name))
           = unchanged(originError("no_route"))

\* C21 witness: a put has just been turned down because no live node has
\* the start ID, on a ring of two nodes or more that holds records.
C21_Witness ==
  /\ out.op = "insertFile" /\ out.res = "no_such_start_node"
  /\ Len(ring) >= 2
  /\ stored # {}

(***************************************************************************)
(* C22: the three ways the code names the node that answers for a key.     *)
(***************************************************************************)
\* CircularLL.h 516-516 CircularLinkedList::findResponsibleMachine (predKey)
keyOrLast(r, pred) == IF pred # 0 THEN r[pred].key ELSE identifierSpace - 1

\* CircularLL.h 518-525 CircularLinkedList::findResponsibleMachine (the test)
isResponsible(count, predKey, currentKey, key) ==
  IF count = 1 THEN TRUE
  ELSE IF predKey < currentKey
  THEN key > predKey /\ key <= currentKey
  ELSE key > predKey \/ key <= currentKey

\* CircularLL.h 514-534 CircularLinkedList::findResponsibleMachine (the scan
\* from the machine at index current; head when the scan comes round)
RECURSIVE findResponsibleFrom(_, _, _)
findResponsibleFrom(r, current, key) ==
  IF current > Len(r)
  THEN 1
  ELSE IF isResponsible(getMachineCount(r),
                        keyOrLast(r, findPredecessor(r, r[current].key)),
                        r[current].key, key)
  THEN current
  ELSE findResponsibleFrom(r, current + 1, key)

\* CircularLL.h 511-535 CircularLinkedList::findResponsibleMachine
findResponsibleMachine(r, key) ==
  IF r = << >> THEN 0 ELSE findResponsibleFrom(r, 1, key)

\* the keys of the identifier space
KeySpace == 0..(identifierSpace - 1)

\* the test of routeToKey holds at node c exactly when c answers for key
testAgrees(c, key) ==
  responsibleAt(ring, c, key) <=> (ring[c].key = responsible_for(ring, key))

\* C22 (successor agreement): on every ring that is not empty and for every
\* key in [0, N), succ, findResponsibleMachine and the test routeToKey makes
\* at each node name the same node: the live node with the smallest ID at or
\* after key, the smallest live ID when key is above all of them.
C22_SuccessorAgreement ==
  ring # << >> =>
    \A key \in KeySpace :
      /\ ring[succ(ring, key)].key = responsible_for(ring, key)
      /\ ring[findResponsibleMachine(ring, key)].key = responsible_for(ring, key)
      /\ \A c \in 1..Len(ring) : testAgrees(c, key)

\* C22 witness: a leave has just left three nodes or more, none of them with
\* ID 0 and none with the largest ID, so that the keys above the largest
\* live ID wrap to the smallest and the keys below it do not start at 0.
C22_Witness ==
  /\ out.op = "DeleteMachine" /\ out.res = "removed"
  /\ Len(ring) >= 3
  /\ 0 \notin ids(ring)
  /\ (identifierSpace - 1) \notin ids(ring)

(***************************************************************************)
(* C23: the enumeration of a B-tree.                                       *)
(***************************************************************************)
\* the records inserted and not removed whose key machine m answers for
heldBy(m) ==
  {g \in stored : responsible_for(ring, g.key) = ring[m].key}

\* the records of a sequence as a set
asSet(q) == {q[j] : j \in 1..Len(q)}

\* the sequence files names every record of held, each once, and n counts it
exactly(files, held, n) ==
  /\ asSet(files) = held
  /\ Len(files) = Cardinality(held)
  /\ n = Len(files)

\* C23 (exact enumeration): for every reachable B-tree, getAllFiles returns
\* every record the tree stores, none left out and none twice, and
\* countFiles returns the number of records so enumerated.
C23_Enumeration ==
  \A m \in 1..Len(ring) :
    exactly(getAllFiles(ring[m].BTreeroot), heldBy(m),
            countFiles(ring[m].BTreeroot))

\* C23 witness: a join has just split the records of all the keys between
\* two machines, the tree of one of them two levels deep.
C23_Witness ==
  /\ out.op = "InsertMachine" /\ out.res = "added"
  /\ Len(ring) = 2
  /\ Cardinality(stored) = MaxKey + 1
  /\ countFiles(ring[1].BTreeroot) >= 3
  /\ levels(ring[1].BTreeroot) = 2

(***************************************************************************)
(* The loops over the ring, one step per iteration: the routing loop of    *)
(* routeToKey and the scans of succ, findPredecessor, insert and           *)
(* deletekey.  walk holds the position of the loop that is running.        *)
(***************************************************************************)
\* main.cpp 221-221 addMachine (machineId): the IDs of the step-level model
RunInputs == {1, 3, 6, 7, 11, 14}

\* the values the scans look for: the IDs, and some no machine can have
ScanValues == RunInputs \cup {-1, 0, 9, identifierSpace}

\* the scans of the ring
ScanOps == {"succ", "findPredecessor", "deletekey", "insert", "tail"}

\* CircularLL.h 346-348 CircularLinkedList::succ (the test at current)
succAt(r, current, value) == r[current].key >= value

\* CircularLL.h 482-484 CircularLinkedList::findPredecessor (the test at
\* current)
findPredecessorAt(r, current, machineKey) == r[next(r, current)].key = machineKey

\* CircularLL.h 253-257 CircularLinkedList::deletekey (the test at current)
deletekeyAt(r, current, value) == r[current].key = value

\* CircularLL.h 181-183 CircularLinkedList::insert (the test at current)
insertAt(r, current, value) == ~(r[next(r, current)].key < value)

\* CircularLL.h 164-354 CircularLinkedList (the scan op stops at current
\* because of what it finds there; the scan for the tail, lines 174-176 and
\* 247-249, stops for nothing but head)
scanStops(op, r, current, value) ==
  CASE op = "succ" -> succAt(r, current, value)
    [] op = "findPredecessor" -> findPredecessorAt(r, current, value)
    [] op = "deletekey" -> deletekeyAt(r, current, value)
    [] op = "insert" -> insertAt(r, current, value)
    [] op = "tail" -> FALSE

\* the scan that never sees that it is back at head
backAtHead_never(r, current) == FALSE

\* CircularLL.h 247-248 CircularLinkedList::deletekey (the end of every scan:
\* next is head again)
backAtHead(r, current) == next(r, current) = 1

\* a loop has returned: what it reported, at which machine (while it runs,
\* out says running)
Returned(op, res, id) ==
  /\ walk' = Idle
  /\ out' = Outcome(op, res, NoFile, id)
  /\ UNCHANGED <<ring, initialized, stored>>

\* CircularLL.h 344-344 CircularLinkedList::succ (current = head; the other
\* scans start the same way)
ScanStart(op, value) ==
  /\ walk = Idle /\ initialized /\ ring # << >>
  /\ walk' = [op |-> op, current |-> 1, key |-> value,
              path |-> << >>, visited |-> {}]
  /\ out' = Outcome(op, "running", NoFile, -1)
  /\ UNCHANGED <<ring, initialized, stored>>

\* CircularLL.h 345-351 CircularLinkedList::succ (one turn of the loop; the
\* other scans turn the same way)
ScanStep ==
  /\ walk.op \in ScanOps
  /\ IF scanStops(walk.op, ring, walk.current, walk.key)
        \/ backAtHead(ring, walk.current)
     THEN Returned(walk.op, "returned", -1)
     ELSE /\ walk' = [walk EXCEPT !.current = next(ring, @)]
          /\ UNCHANGED <<ring, initialized, out, stored>>

\* CircularLL.h 389-408 CircularLinkedList::routeToKey (from a live start to
\* the head of the loop)
RouteStart(startMachineId, key) ==
  /\ walk = Idle /\ initialized
  /\ findMachineById(ring, startMachineId) # 0
  /\ walk' = [op |-> "routeToKey",
              current |-> findMachineById(ring, startMachineId),
              key |-> key, path |-> <<startMachineId>>,
              visited |-> {startMachineId}]
  /\ out' = Outcome("routeToKey", "running", NoFile, -1)
  /\ UNCHANGED <<ring, initialized, stored>>

\* CircularLL.h 450-457 CircularLinkedList::routeToKey (the loop guard and
\* the step to nextHop)
RouteMove(nextHop) ==
  IF ring[nextHop].key \in walk.visited
  THEN Returned("routeToKey", "guard", ring[walk.current].key)
  ELSE /\ walk' = [walk EXCEPT !.current = nextHop,
                               !.path = Append(@, ring[nextHop].key),
                               !.visited = @ \cup {ring[nextHop].key}]
       /\ UNCHANGED <<ring, initialized, out, stored>>

\* CircularLL.h 411-458 CircularLinkedList::routeToKey (one turn of the loop)
RouteStep ==
  /\ walk.op = "routeToKey"
  /\ IF responsibleAt(ring, walk.current, walk.key)
     THEN Returned("routeToKey", "arrived", ring[walk.current].key)
     ELSE RouteMove(hopOrNext(ring, walk.current,
                              bestFinger(ring, walk.current, walk.key)))

\* main.cpp 527-600 main (the menu loop; an operation is taken up when the
\* one before has returned), with the loops over the ring step by step
NextRun ==
  \/ \E arr \in DistinctSeqs(RunInputs, MaxInit) :
       arr # << >> /\ walk = Idle /\ InsertMachines(arr)
  \/ \E id \in RunInputs : walk = Idle /\ InsertMachine(id, MaxRing)
  \/ \E id \in RunInputs : walk = Idle /\ DeleteMachine(id)
  \/ \E op \in ScanOps, value \in ScanValues : ScanStart(op, value)
  \/ ScanStep
  \/ \E id \in RunInputs, key \in KeySpace : RouteStart(id, key)
  \/ RouteStep

\* main.cpp 521-605 main (one thread: a loop that has begun goes on turning)
SpecRun ==
  Init /\ [][NextRun]_vars /\ WF_vars(ScanStep) /\ WF_vars(RouteStep)

(***************************************************************************)
(* C24: termination.                                                       *)
(***************************************************************************)
\* C24 (termination): every loop over the ring that has begun returns: the
\* routing loop of routeToKey leaves after finitely many hops for every
\* live start and every key, and the scans of insert, deletekey, succ and
\* findPredecessor come to an end.
C24_Termination == (walk # Idle) ~> (walk = Idle)

\* C24 witness: a route is two hops from its start and has not returned.
C24_Witness ==
  /\ walk.op = "routeToKey"
  /\ Len(walk.path) = 3
  /\ Len(ring) >= 4

(***************************************************************************)
(* C25: the identifier space the facade computes from the number of bits,  *)
(* in the 32-bit int of the code.  out holds the fields the constructor    *)
(* set and the answer of the last range check.                             *)
(***************************************************************************)
\* main.cpp 59-59 initializeSystem (bits), with values on either side of
\* the range the constructor clamps to
BitInputs == 0..32

\* main.cpp 70-70 initializeSystem (btreeOrder)
OrderInputs == {3, 5}

\* IPFS.h 33-34 IPFS::IPFS (numBits brought into 1..31)
clampBits(numBits) ==
  IF numBits < 1 THEN 1 ELSE IF numBits > 31 THEN 31 ELSE numBits

\* IPFS.h 37-37 IPFS::IPFS (1 << bits in a 32-bit int: the int whose only
\* set bit is bit bits; bit 31 is the sign bit, of value -2^31)
shiftOne(bits) == IF bits = 31 THEN (-(2^30)) - 2^30 ELSE 2^bits

\* IPFS.h 56-58 IPFS::isValidMachineId (with the identifier space of the
\* object)
isValidMachineIdIn(id, space) == id >= 0 /\ id < space

\* the largest ID of an m-bit space, 2^m - 1
maxIdOf(m) == (2^(m - 1) - 1) + 2^(m - 1)

\* main.cpp 106-106 initializeSystem (id): IDs at both ends of an m-bit
\* space and just outside it
ProbeIds(m) ==
  {-1, 0, 1, maxIdOf(m)} \cup (IF m < 31 THEN {2^m} ELSE {})

\* main.cpp 521-525 main (before initializeSystem)
InitSpace ==
  /\ ring = << >>
  /\ initialized = FALSE
  /\ out = [op |-> "main", res |-> TRUE, numBits |-> 0, bits |-> 0,
            identifierSpace |-> 0, order |-> 0, id |-> -1]
  /\ stored = {}
  /\ walk = Idle

\* IPFS.h 31-41 IPFS::IPFS(int, int)
Construct(numBits, btreeOrder) ==
  /\ out.op = "main"
  /\ out' = [op |-> "IPFS", res |-> TRUE, numBits |-> numBits,
             bits |-> clampBits(numBits),
             identifierSpace |-> shiftOne(clampBits(numBits)),
             order |-> btreeOrder, id |-> -1]
  /\ UNCHANGED <<ring, initialized, stored, walk>>

\* IPFS.h 56-58 IPFS::isValidMachineId
Validate(id) ==
  /\ out.op # "main"
  /\ out' = [out EXCEPT !.op = "isValidMachineId", !.id = id,
                        !.res = isValidMachineIdIn(id, out.identifierSpace)]
  /\ UNCHANGED <<ring, initialized, stored, walk>>

\* main.cpp 59-106 initializeSystem (the construction and the range checks
\* of the IDs entered)
NextSpace ==
  \/ \E numBits \in BitInputs, btreeOrder \in OrderInputs :
       Construct(numBits, btreeOrder)
  \/ out.op # "main" /\ \E id \in ProbeIds(out.bits) : Validate(id)

\* main.cpp 49-106 initializeSystem
SpecSpace == InitSpace /\ [][NextSpace]_vars

\* N is 2^m, and positive (2^31 itself is not a 32-bit int, so the equation
\* is put on the halves)
isPowerOfTwo(N, m) == N > 0 /\ N % 2 = 0 /\ N \div 2 = 2^(m - 1)

\* the range check says yes for exactly the IDs 0 .. 2^m - 1
acceptsExactly(m) ==
  out.op = "isValidMachineId" =>
    (out.res <=> (out.id >= 0 /\ out.id <= maxIdOf(m)))

\* C25 (identifier space), as stated: for every m in [1, 31] the facade
\* constructor, computing in 32-bit signed int arithmetic, sets the
\* identifier space to N = 2^m, a positive value, and the range check
\* 0 <= id < N accepts exactly the IDs 0 .. 2^m - 1.
C25_IdentifierSpace ==
  (out.op # "main" /\ out.numBits \in 1..31) =>
    /\ isPowerOfTwo(out.identifierSpace, out.numBits)
    /\ acceptsExactly(out.numBits)

\* C25 witness: the facade built with m = 31 has just turned down ID 0: its
\* identifier space is -2^31.
C25_Witness ==
  /\ out.op = "isValidMachineId" /\ out.numBits = 31
  /\ out.identifierSpace < 0
  /\ out.id = 0 /\ out.res = FALSE

(***************************************************************************)
(* C26: the finger the router picks.                                       *)
(***************************************************************************)
\* no finger of good has its cached successor farther clockwise from the
\* node from than the ID chosen
farthest(RT, good, from, chosen) ==
  \A j \in good : arc(from, RT[j].machinekey) <= arc(from, chosen)

\* the closest preceding finger: the cached successor of the first finger,
\* from entry i down to the first, that lies in (from, key]; -1 for none
RECURSIVE highToLow(_, _, _, _)
highToLow(RT, from, key, i) ==
  IF i = 0 THEN -1
  ELSE IF RT[i].m # 0 /\ inArc(RT[i].machinekey, from, key)
  THEN RT[i].machinekey
  ELSE highToLow(RT, from, key, i - 1)

\* at node c and for key, with good the fingers that qualify: the router's
\* choice is the farthest of them and is what the scan from the top picks
longestJump(c, key, good) ==
  good # {} =>
    /\ farthest(ring[c].RT, good, ring[c].key,
                ring[bestFinger(ring, c, key)].key)
    /\ highToLow(ring[c].RT, ring[c].key, key, Len(ring[c].RT))
         = ring[bestFinger(ring, c, key)].key

\* C26 (longest legal jump): whenever a finger of the current node
\* qualifies as a hop for key (its cached successor lies in (current, key]
\* modulo N), the finger routeToKey keeps, the last that qualifies in the
\* scan from entry 0 up, is the one whose cached successor is farthest
\* clockwise from the current node: the node a closest-preceding-finger
\* scan from the top entry down would pick.
C26_LongestJump ==
  \A c \in 1..Len(ring) : \A key \in KeySpace :
    longestJump(c, key, goodFingers(ring[c].RT, ring[c].key, key))

\* the cached successors of the fingers of node c that qualify for key
hopsFor(c, key) ==
  {ring[c].RT[j].machinekey : j \in goodFingers(ring[c].RT, ring[c].key, key)}

\* C26 witness: after a join, some node that does not answer for a key has
\* fingers to three different nodes that all qualify as hops for it.
C26_Witness ==
  /\ out.op = "InsertMachine" /\ out.res = "added"
  /\ \E c \in 1..Len(ring) : \E key \in KeySpace :
       /\ ~responsibleAt(ring, c, key)
       /\ Cardinality(hopsFor(c, key)) >= 3

(***************************************************************************)
(* C27: a hop does not pass the node that answers for the key.             *)
(***************************************************************************)
\* the number of steps up the identifier circle from a to b, in 0..N-1
ahead(a, b) == (b - a) % identifierSpace

\* the hop from node c to node nh, for key, with R the ID that answers for
\* key: it lands in (c, key], or it is the step to next because no finger
\* qualifies and next answers for key; it comes nearer to R and does not
\* pass it
towards(c, key, nh, R) ==
  /\ \/ inArc(ring[nh].key, ring[c].key, key)
     \/ /\ goodFingers(ring[c].RT, ring[c].key, key) = {}
        /\ nh = next(ring, c)
        /\ ring[nh].key = R
  /\ ahead(ring[nh].key, R) < ahead(ring[c].key, R)
  /\ inArc(ring[nh].key, ring[c].key, R)

\* C27 (no overshoot): in every reachable state, the hop routeToKey takes
\* from a node c that does not answer for key goes to a node in (c, key]
\* modulo N or, when no finger qualifies, to the next of c, which then
\* answers for key; the clockwise distance to the node that answers for key
\* becomes strictly smaller and the hop does not pass that node.
C27_NoOvershoot ==
  \A c \in 1..Len(ring) : \A key \in KeySpace :
    ring[c].key # responsible_for(ring, key) =>
      towards(c, key, hopOrNext(ring, c, bestFinger(ring, c, key)),
              responsible_for(ring, key))

\* node c does not answer for key and no finger of it qualifies
fallsBack(c, key) ==
  /\ ring[c].key # responsible_for(ring, key)
  /\ bestFinger(ring, c, key) = 0

\* node c does not answer for key and its hop goes past its next
jumps(c, key) ==
  /\ ring[c].key # responsible_for(ring, key)
  /\ bestFinger(ring, c, key) \notin {0, next(ring, c)}

\* C27 witness: after a leave, on a ring of four nodes or more, one hop is
\* the step to next for want of a finger and another is a finger that
\* passes over a node.
C27_Witness ==
  /\ out.op = "DeleteMachine" /\ out.res = "removed"
  /\ Len(ring) >= 4
  /\ \E c \in 1..Len(ring) : \E key \in KeySpace : fallsBack(c, key)
  /\ \E c \in 1..Len(ring) : \E key \in KeySpace : jumps(c, key)

(***************************************************************************)
(* C28: the loop guard of the router.                                      *)
(***************************************************************************)
\* the route res for key k did not end at the guard; it ended at a node for
\* which the test of the loop holds, and that node, the one a put or a
\* delete then acts on, answers for k
endsResponsible(res, k) ==
  /\ ~res.guard
  /\ res.path # << >>
  /\ responsibleAt(ring, lastMachine(ring, res.path), k)
  /\ ring[lastMachine(ring, res.path)].key = responsible_for(ring, k)

\* C28 (dead loop guard): in every reachable state, finger tables having
\* been rebuilt inside every join and leave, routeToKey from any live node
\* for any key never leaves its loop through the visited-set guard; where
\* the loop stops, the current node answers for the key, so a put or a
\* delete never acts on a node that does not.
C28_GuardDead ==
  \A s \in 1..Len(ring) : \A k \in KeySpace :
    endsResponsible(route(ring, ring[s].key, k), k)

\* C28 witness: after a leave has rebuilt the finger tables and left four
\* nodes or more, some route visits four of them.
C28_Witness ==
  /\ out.op = "DeleteMachine" /\ out.res = "removed"
  /\ Len(ring) >= 4
  /\ \E s \in 1..Len(ring) : \E k \in KeySpace :
       Len(routeToKey(ring, ring[s].key, k)) >= 4

(***************************************************************************)
(* C29: the inserts of a hand-off meet no key that is already there.       *)
(***************************************************************************)
\* some insert of files[i..] into tree, one after the other, finds its key
\* in the tree and takes the branch that prints that the key already exists
RECURSIVE collides(_, _, _)
collides(tree, files, i) ==
  IF i > Len(files) THEN FALSE
  ELSE \/ alreadyExists(files[i].key, tree)
       \/ collides(insertHelper(tree, files[i]), files, i + 1)

\* the hand-off of the join that made r1, to newMachine from successor
joinCollides(r1, previous, newMachine, successor) ==
  collides(r1[newMachine].BTreeroot,
           selectMoves(getAllFiles(r1[successor].BTreeroot),
                       r1[previous].key, r1[newMachine].key), 1)

\* the join that made r1 from the ring, previous being the node before the
\* new one, hands off without a collision and drops no record
cleanJoin(r1, previous) ==
  (previous # 0 /\ getMachineCount(r1) > 1) =>
    /\ ~joinCollides(r1, previous, next(r1, previous),
                     next(r1, next(r1, previous)))
    /\ totalFiles(Traverse_insert(r1, previous)) = totalFiles(ring)

\* the leave of node current, of a ring of two nodes or more, hands off
\* without a collision and drops no record
cleanLeave(current) ==
  Len(ring) >= 2 =>
    /\ ~collides(ring[next(ring, current)].BTreeroot,
                 getAllFiles(ring[current].BTreeroot), 1)
    /\ totalFiles(deletekey(ring, ring[current].key).ring) = totalFiles(ring)

\* C29 (no collision in the hand-off): in every reachable state, each record
\* that a join would insert into the tree of the new node, or a leave into
\* the tree of the successor, has a key that tree does not hold, so the
\* already-exists branch of the B-tree insert is not taken during a hand-off
\* and no record is dropped.
C29_NoCollision ==
  /\ \A x \in MachineInputs :
       (isValidMachineId(x) /\ x \notin ids(ring)) =>
         cleanJoin(updateRT(CLL_insert(ring, x)),
                   SearchNewMachine(updateRT(CLL_insert(ring, x)), x))
  /\ \A current \in 1..Len(ring) : cleanLeave(current)

\* node n holds a record with its key in (a, b] and one with its key
\* outside
holdsBoth(n, a, b) ==
  /\ \E j \in 1..Len(enumerate(ring[n].BTreeroot)) :
       inArc(enumerate(ring[n].BTreeroot)[j].key, a, b)
  /\ \E j \in 1..Len(enumerate(ring[n].BTreeroot)) :
       ~inArc(enumerate(ring[n].BTreeroot)[j].key, a, b)

\* C29 witness: a leave has just handed records to a successor that held
\* records of its own: the node that now answers for the ID that left holds
\* a record of the interval of that ID and one of its own.
C29_Witness ==
  /\ out.op = "DeleteMachine" /\ out.res = "removed"
  /\ Len(ring) >= 2
  /\ \E n \in 1..Len(ring) :
       /\ ring[n].key = responsible_for(ring, out.id)
       /\ holdsBoth(n, ring[predOf(ring, n)].key, out.id)

(***************************************************************************)
(* C30: what the finger entries refer to.                                  *)
(***************************************************************************)
\* the finger entry f refers to a node of the ring, and the ID it caches is
\* the ID of that node
liveFinger(f) ==
  /\ f.m \in 1..Len(ring)
  /\ ring[f.m].key = f.machinekey
  /\ f.machinekey \in ids(ring)

\* no finger entry of any node caches the ID id
unreferenced(id) ==
  \A n \in 1..Len(ring) : \A j \in 1..Len(ring[n].RT) :
    ring[n].RT[j].machinekey # id

\* C30 (finger references stay live): after every join and every leave,
\* every finger entry of every live node refers to a node that is a member
\* of the ring and caches the ID of the node it refers to; after a leave no
\* finger entry refers to the node that was destroyed.
C30_FingersLive ==
  /\ \A n \in 1..Len(ring) : \A j \in 1..Len(ring[n].RT) :
       liveFinger(ring[n].RT[j])
  /\ (out.op = "DeleteMachine" /\ out.res = "removed") => unreferenced(out.id)

\* the finger entry f had the node with ID id as the successor of its
\* target for as long as that node was live
wasSuccessor(f, id) == ahead(f.filekey, id) < ahead(f.filekey, f.machinekey)

\* C30 witness: a leave has just left three nodes or more and destroyed a
\* node that a finger of one of them referred to; that finger now refers to
\* the next live node.
C30_Witness ==
  /\ out.op = "DeleteMachine" /\ out.res = "removed"
  /\ Len(ring) >= 3
  /\ \E n \in 1..Len(ring) : \E j \in 1..Len(ring[n].RT) :
       wasSuccessor(ring[n].RT[j], out.id)

(***************************************************************************)
(* C31: the split of a full node.                                          *)
(***************************************************************************)
\* the records of node n and one more, file, that falls after its record k
withRecord(n, file, k) ==
  SubSeq(n.value, 1, k) \o <<file>> \o SubSeq(n.value, k + 1, n.count)

\* the children of node n and one more, c, that falls after its child k
withChild(n, c, k) ==
  SubSeq(ChildSeq(n), 1, k + 1) \o <<c>> \o SubSeq(ChildSeq(n), k + 2, n.count + 1)

\* res is what setval hands up from the full node n, the record file and
\* the child c falling after position k: a left node of floor((t-1)/2)
\* records, a right node of ceil((t-1)/2), the median of the t records
\* between them on its way up, no record and no child lost or moved out of
\* order
halves(res, n, file, c, k) ==
  /\ res.up
  /\ res.n.count = (Order - 1) \div 2
  /\ res.c.count = (Order - 1) - ((Order - 1) \div 2)
  /\ Len(res.n.value) = res.n.count
  /\ Len(res.c.value) = res.c.count
  /\ res.n.value \o <<res.p>> \o res.c.value = withRecord(n, file, k)
  /\ res.p = withRecord(n, file, k)[((Order - 1) \div 2) + 1]
  /\ ChildSeq(res.n) \o ChildSeq(res.c) = withChild(n, c, k)

\* node n2 is node n after it took the record and the right node that its
\* child k handed up as r
takes(n2, n, k, r) ==
  /\ n2.count = n.count + 1
  /\ n2.value[k + 1] = r.p
  /\ n2.child[k] = r.n
  /\ n2.child[k + 1] = r.c

\* what child k of node n handed up as r is taken by n when n has room, and
\* splits n when n is full
splitsUp(file, n, k, r) ==
  r.up =>
    IF n.count < Order - 1
    THEN /\ ~setvalUp(file, n, k, r).up
         /\ takes(setvalUp(file, n, k, r).n, n, k, r)
    ELSE halves(setvalUp(file, n, k, r), [n EXCEPT !.child[k] = r.n], r.p, r.c, k)

RECURSIVE splitsFrom(_, _)

\* every node on the way of file from node n down is split as splitsUp says
splitsAt(file, n, s) ==
  \/ s.found
  \/ /\ splitsFrom(file, n.child[s.pos])
     /\ splitsUp(file, n, s.pos, setval(file, n.child[s.pos]))

splitsFrom(file, n) ==
  n = NIL \/ splitsAt(file, n, searchNode(file.key, n))

\* when the root itself is split, a new root holds the median alone, over
\* the two halves
freshRoot(root2, r) ==
  r.up =>
    /\ root2.count = 1
    /\ root2.value = <<r.p>>
    /\ ChildSeq(root2) = <<r.n, r.c>>

\* C31 (split on overflow): in every reachable tree and for every record
\* that could be inserted, each node on the way of the insert that already
\* holds t-1 records when a record reaches it is split into a left node of
\* floor((t-1)/2) records and a right node of ceil((t-1)/2) records, and the
\* median of the t records goes to the parent, into a new root when the root
\* itself is split, whatever the position of the new record.
C31_Split ==
  [](\A m \in 1..Len(ring) : \A f \in TreeFiles :
        /\ splitsFrom(f, ring[m].BTreeroot)
        /\ ring[m].BTreeroot # NIL =>
             freshRoot(insert(f, ring[m].BTreeroot), setval(f, ring[m].BTreeroot)))

\* C31 witness: an insert has just made a tree of three levels out of six
\* records and one more: it split a leaf, the node above it and the root.
C31_Witness ==
  /\ out.op = "insertHelper" /\ out.res = "stored"
  /\ \E m \in 1..Len(ring) :
       /\ levels(ring[m].BTreeroot) = 3
       /\ Len(enumerate(ring[m].BTreeroot)) = 7
       /\ ring[m].BTreeroot.count = 1

(***************************************************************************)
(* C32: the restoration of a child that holds too few records.             *)
(***************************************************************************)
\* child i of node n holds fewer records than the minimum
underflows(n, before, i) ==
  slot(n, before, i) # NIL /\ slot(n, before, i).count < minRecords

\* child j of node n has a record to spare
spare(n, j) == j \in 0..n.count /\ n.child[j].count > minRecords

\* n2 is n after child i took the separating record in front and the parent
\* took the last record of child i-1 in its place
borrowsLeft(n2, n, i) ==
  /\ n2.count = n.count
  /\ n2.value = [n.value EXCEPT ![i] = n.child[i - 1].value[n.child[i - 1].count]]
  /\ n2.child[i].value = <<n.value[i]>> \o n.child[i].value
  /\ n2.child[i - 1].value =
       SubSeq(n.child[i - 1].value, 1, n.child[i - 1].count - 1)
  /\ \A j \in 0..n.count : j \notin {i - 1, i} => n2.child[j] = n.child[j]

\* n2 is n after child i took the separating record at its end and the
\* parent took the first record of child i+1 in its place
borrowsRight(n2, n, i) ==
  /\ n2.count = n.count
  /\ n2.value = [n.value EXCEPT ![i + 1] = n.child[i + 1].value[1]]
  /\ n2.child[i].value = Append(n.child[i].value, n.value[i + 1])
  /\ n2.child[i + 1].value = Tail(n.child[i + 1].value)
  /\ \A j \in 0..n.count : j \notin {i, i + 1} => n2.child[j] = n.child[j]

\* n2 is n after its children j-1 and j became one node, with the record
\* that separated them between theirs
mergesAt(n2, n, j) ==
  /\ n2.count = n.count - 1
  /\ n2.value = SubSeq(n.value, 1, j - 1) \o SubSeq(n.value, j + 1, n.count)
  /\ n2.child[j - 1].value =
       n.child[j - 1].value \o <<n.value[j]>> \o n.child[j].value
  /\ \A h \in 0..(n.count - 1) :
       h # j - 1 => n2.child[h] = n.child[IF h < j THEN h ELSE h + 1]

\* n2 is n after the restoration of its child i, in the order left sibling,
\* right sibling, merge
restored(n2, n, i) ==
  IF i >= 1 /\ spare(n, i - 1) THEN borrowsLeft(n2, n, i)
  ELSE IF i < n.count /\ spare(n, i + 1) THEN borrowsRight(n2, n, i)
  ELSE \E j \in {i, i + 1} \cap 1..n.count : mergesAt(n2, n, j)

\* when the removal r left child i with too few records, what delhelp
\* returns is r restored, with the records that r holds
restoresUp(before, i, r) ==
  underflows(r.n, before, i) =>
    /\ restored(fixup(before, i, r).n, r.n, i)
    /\ enumerate(fixup(before, i, r).n) = enumerate(r.n)

RECURSIVE restoresFrom(_, _)

\* the removals below node on the way of key, the one of the successor that
\* took the place of key included
restoresBelow(key, node, s) ==
  IF s.found
  THEN node.child[s.pos - 1] # NIL =>
         restoresFrom(copysucc(node, s.pos).value[s.pos].key, node.child[s.pos])
  ELSE restoresFrom(key, node.child[s.pos])

\* every restoration on the way of the removal of key from node down is as
\* restoresUp says
restoresAt(key, node, s) ==
  /\ restoresBelow(key, node, s)
  /\ restoresUp(node, s.pos, removed(key, node, s))

restoresFrom(key, node) ==
  node = NIL \/ restoresAt(key, node, searchNode(key, node))

\* C32 (underflow restoration order): in every reachable tree and for every
\* key that could be removed, whenever the removal leaves child i of a node
\* with fewer records than the minimum, the child takes the last record of
\* its left sibling through the parent if that sibling holds more than the
\* minimum; otherwise the first record of its right sibling if that one
\* holds more than the minimum; otherwise it is merged with a sibling and
\* the record of the parent that separated them; the restoration leaves the
\* records as they were.
C32_Restoration ==
  [](\A m \in 1..Len(ring) : \A k \in TreeKeys :
        restoresFrom(k, ring[m].BTreeroot))

\* which restoration the removal r is followed by at child i of its node
caseOf(before, i, r) ==
  IF ~underflows(r.n, before, i) THEN {}
  ELSE IF i >= 1 /\ spare(r.n, i - 1) THEN {"left"}
  ELSE IF i < r.n.count /\ spare(r.n, i + 1)
       THEN {IF i >= 1 THEN "right_not_left" ELSE "right"}
  ELSE {"merge"}

\* the restorations at node itself when key is removed from under it
casesAt(key, node) ==
  IF node = NIL THEN {}
  ELSE caseOf(node, searchNode(key, node).pos,
              removed(key, node, searchNode(key, node)))

\* C32 witness: a remove has just succeeded on a tree from whose root one
\* further remove would take a record of the right sibling because the left
\* one has none to spare, and another one would merge two children.
C32_Witness ==
  /\ out.op = "deleteHelper" /\ out.res = "deleted"
  /\ \E m \in 1..Len(ring) :
       {"right_not_left", "merge"} \subseteq
         UNION {casesAt(k, ring[m].BTreeroot) : k \in TreeKeys}

(***************************************************************************)
(* C33: the root after a remove.                                           *)
(***************************************************************************)
\* the remove of key that delhelp answered with r emptied the root: the tree
\* is then the only child of that root, one level lower than root was
collapses(root, r, root2) ==
  (r.flag /\ r.n.count = 0) =>
    /\ root2 = r.n.child[0]
    /\ levels(root2) = levels(root) - 1

\* a tree that holds the record f and nothing else
freshLeaf(f) ==
  [count |-> 1, value |-> <<f>>, child |-> [i \in 0..1 |-> NIL]]

\* the remove of the only record of a tree leaves no root, and an insert
\* then starts a root of its own
emptied(root, key, root2) ==
  (Len(enumerate(root)) = 1 /\ enumerate(root)[1].key = key) =>
    /\ root2 = NIL
    /\ \A f \in TreeFiles : insert(f, root2) = freshLeaf(f)

\* the remove of key from root gave root2: a root that holds a record or no
\* root at all, the only child of a root that a merge emptied, and no root
\* when the last record went
afterRemove(root, key, root2) ==
  /\ root2 # NIL => root2.count >= 1
  /\ root # NIL => collapses(root, delhelp(key, root), root2)
  /\ emptied(root, key, root2)

\* C33 (root collapse): in every reachable state, the root of every tree
\* that is not empty holds a record, and for every key that could be
\* removed: when the remove empties the root by a merge the only child of
\* the root is the new root, one level lower; the remove of the last record
\* of a tree leaves no root, and a later insert starts a new one.
C33_RootCollapse ==
  [](\A m \in 1..Len(ring) :
       /\ ring[m].BTreeroot # NIL => ring[m].BTreeroot.count >= 1
       /\ \A k \in TreeKeys :
            afterRemove(ring[m].BTreeroot, k, del(k, ring[m].BTreeroot)))

\* the remove of key from root merges the two children of a root of one
\* record
mergesRoot(root, key) ==
  /\ root # NIL
  /\ root.child[0] # NIL
  /\ delhelp(key, root).flag
  /\ delhelp(key, root).n.count = 0

\* C33 witness: a remove has just taken the last record of the tree of one
\* machine, and a further remove would merge the children of the root of
\* another machine's tree.
C33_Witness ==
  /\ out.op = "deleteHelper" /\ out.res = "deleted"
  /\ \E m \in 1..Len(ring) : ring[m].BTreeroot = NIL
  /\ \E m \in 1..Len(ring) : \E k \in TreeKeys : mergesRoot(ring[m].BTreeroot, k)

(***************************************************************************)
(* C34: the finger tables for every number of bits.  The facade is built   *)
(* with any number of bits as in the model of the identifier space; the    *)
(* ring holds machines without records, and the targets of the fingers are *)
(* computed in the 32-bit int of the code.                                 *)
(***************************************************************************)
\* the largest 32-bit int
IntMax == (2^30 - 1) + 2^30

\* CircularLL.h 373-373 CircularLinkedList::updateRT (the sum of two ints
\* that are not negative, in a 32-bit int: past IntMax it comes out 2^32
\* lower)
addInt(a, b) ==
  IF a > IntMax - b
  THEN ((a - 2^30) - 2^30) + ((b - 2^30) - 2^30)
  ELSE a + b

\* CircularLL.h 373-373 CircularLinkedList::updateRT (a % n of two ints, the
\* quotient rounded towards zero; the only n below zero is -2^31)
remInt(a, n) ==
  IF n > 0
  THEN IF a >= 0 THEN a % n
       ELSE IF a = (-(2^30)) - 2^30 THEN 0 ELSE -((-a) % n)
  ELSE IF a = n THEN 0 ELSE a

\* the target that is not brought back into the identifier space
fingerTargetInt_sum(key, i, IS) == addInt(key, 2^i)

\* CircularLL.h 373-373 CircularLinkedList::updateRT (the target of finger i
\* of the machine with this key)
fingerTargetInt(key, i, IS) == remInt(addInt(key, 2^i), IS)

RECURSIVE log2Int(_)

\* DoublyLL.h 100-100 DoublyLinkedList::initialize (log2 of a positive int,
\* cut to an int)
log2Int(IS) == IF IS < 2 THEN 0 ELSE 1 + log2Int(IS \div 2)

\* DoublyLL.h 100-101 DoublyLinkedList::initialize (numEntries; log2 of an
\* int that is not positive is no number, and what the cast to int makes
\* of it is any int)
numEntriesOf(IS) ==
  IF IS >= 1
  THEN {IF log2Int(IS) < 1 THEN 1 ELSE log2Int(IS)}
  ELSE 1..32

\* CircularLL.h 359-383 CircularLinkedList::updateRT (with the identifier
\* space of the ring; every routing table gets numEntries fingers)
updateRTIn(r, IS, numEntries) ==
  [c \in 1..Len(r) |->
     [r[c] EXCEPT !.RT =
        [j \in 1..numEntries |->
           fingerTo(r, fingerTargetInt(r[c].key, j - 1, IS),
                    succ(r, fingerTargetInt(r[c].key, j - 1, IS)))]]]

\* IPFS.h 65-69 IPFS::InsertMachines (one ID of the array)
insertValid(r, id, IS) ==
  IF isValidMachineIdIn(id, IS) THEN CLL_insert(r, id) ELSE r

\* IPFS.h 63-73 IPFS::InsertMachines (called once, by initializeSystem, with
\* two IDs that differ)
SetupFinger(a, b, numEntries) ==
  /\ out.op = "IPFS"
  /\ ~initialized
  /\ a # b
  /\ ring' = updateRTIn(insertValid(insertValid(ring, a, out.identifierSpace),
                                    b, out.identifierSpace),
                        out.identifierSpace, numEntries)
  /\ initialized' = TRUE
  /\ out' = [out EXCEPT !.op = "InsertMachines", !.id = -1, !.res = TRUE]
  /\ UNCHANGED <<stored, walk>>

\* CircularLL.h 197-217 CircularLinkedList::insertAfter (of a machine
\* without records to take over), behind the range check of IPFS.h 78-84
\* IPFS::InsertMachine
JoinFinger(id, numEntries) ==
  /\ initialized
  /\ IF isValidMachineIdIn(id, out.identifierSpace) /\ ~CLL_search(ring, id)
     THEN /\ ring' = updateRTIn(CLL_insert(ring, id), out.identifierSpace, numEntries)
          /\ out' = [out EXCEPT !.op = "InsertMachine", !.id = id, !.res = TRUE]
     ELSE /\ ring' = ring
          /\ out' = [out EXCEPT !.op = "InsertMachine", !.id = id, !.res = FALSE]
  /\ UNCHANGED <<initialized, stored, walk>>

\* CircularLL.h 237-290 CircularLinkedList::deletekey (of a machine without
\* records to hand over)
LeaveFinger(id, numEntries) ==
  /\ initialized
  /\ IF CLL_search(ring, id)
     THEN /\ ring' = updateRTIn(unlink(ring, findMachineById(ring, id)),
                                out.identifierSpace, numEntries)
          /\ out' = [out EXCEPT !.op = "DeleteMachine", !.id = id, !.res = TRUE]
     ELSE /\ ring' = ring
          /\ out' = [out EXCEPT !.op = "DeleteMachine", !.id = id, !.res = FALSE]
  /\ UNCHANGED <<initialized, stored, walk>>

\* main.cpp 527-600 main (the construction, the initial machines, joins and
\* leaves, for any number of bits)
NextFinger ==
  \/ \E numBits \in BitInputs, btreeOrder \in OrderInputs :
       Construct(numBits, btreeOrder)
  \/ /\ out.op = "IPFS"
     /\ \E a \in ProbeIds(out.bits), b \in ProbeIds(out.bits) :
          \E n \in numEntriesOf(out.identifierSpace) : SetupFinger(a, b, n)
  \/ /\ initialized
     /\ \E id \in ProbeIds(out.bits) :
          \E n \in numEntriesOf(out.identifierSpace) : JoinFinger(id, n)
  \/ /\ initialized
     /\ \E id \in ProbeIds(out.bits) :
          \E n \in numEntriesOf(out.identifierSpace) : LeaveFinger(id, n)

\* main.cpp 521-605 main (any number of bits, machines without records)
SpecFinger == InitSpace /\ [][NextFinger]_vars

\* (key + 2^i) mod 2^m for a key of [0, 2^m) and i < m, as a number: the sum
\* is never formed where it could pass 2^31
targetOf(key, i, m) ==
  IF key - 2^(m - 1) >= 2^(m - 1) - 2^i
  THEN (key - 2^(m - 1)) - (2^(m - 1) - 2^i)
  ELSE key + 2^i

\* the table RT of the machine with this key, for m bits: m entries, entry
\* i in place i, its target (key + 2^i) mod 2^m, inside [0, 2^m), and
\* key + 2^i an int
shaped(RT, key, m) ==
  /\ Len(RT) = m
  /\ \A i \in 0..(m - 1) :
       /\ RT[i + 1].filekey = targetOf(key, i, m)
       /\ RT[i + 1].filekey >= 0 /\ RT[i + 1].filekey <= maxIdOf(m)
       /\ key <= IntMax - 2^i

\* C34 (finger table shape): for every number of bits m of [1, 31], after
\* the initial setup and after every join and leave, the finger table of
\* every live node has exactly m entries in ascending i, the target of
\* entry i is (node.id + 2^i) mod N and lies in [0, N), and node.id + 2^i
\* does not wrap in the 32-bit int it is computed in.
C34_FingerShape ==
  \A n \in 1..Len(ring) : shaped(ring[n].RT, ring[n].key, out.bits)

\* C34 witness: with 30 bits, after a join, the node with the largest ID is
\* live with another one; its last finger has the target 2^29 - 1, from the
\* largest sum that is formed, 2^30 - 1 + 2^29.
C34_Witness ==
  /\ out.op = "InsertMachine" /\ out.res = TRUE /\ out.bits = 30
  /\ Len(ring) >= 2
  /\ \E n \in 1..Len(ring) :
       /\ ring[n].key = maxIdOf(30)
       /\ ring[n].RT[30].filekey = 2^29 - 1

(***************************************************************************)
(* C35: the threshold MIN for every order.  out holds the fields of a node *)
(* as its constructor set them, and the answers of the two tests that use  *)
(* MIN for a child of some count.                                          *)
(***************************************************************************)
\* main.cpp 73-73 initializeSystem (btreeOrder): every order main accepts
TreeOrders == 3..100

\* BTree.h 40-60 BTreeNode::BTreeNode(int)
NewNode(order) ==
  /\ out' = [op |-> "BTreeNode", order |-> order, MAX |-> order - 1,
             MIN |-> minOf(order), count |-> 0,
             underflow |-> FALSE, spare |-> FALSE]
  /\ UNCHANGED <<ring, initialized, stored, walk>>

\* BTree.h 380-416 BTree::delhelp, BTree::restore (the two tests against
\* MIN, for a child that holds count records)
Threshold(count) ==
  /\ out.op # "main"
  /\ out' = [out EXCEPT !.op = "restore", !.count = count,
                        !.underflow = (count < out.MIN),
                        !.spare = (count > out.MIN)]
  /\ UNCHANGED <<ring, initialized, stored, walk>>

\* main.cpp 73-77 initializeSystem (a tree of any order, and children of
\* any count the order allows)
NextOrder ==
  \/ \E order \in TreeOrders : NewNode(order)
  \/ out.op # "main" /\ \E count \in 0..out.MAX : Threshold(count)

\* main.cpp 49-77 initializeSystem
SpecOrder == InitSpace /\ [][NextOrder]_vars

\* the least integer that is not below t/2
ceilHalf(t) == CHOOSE c \in 0..t : 2 * c >= t /\ 2 * (c - 1) < t

\* C35 (minimum-records threshold): for every order t of [3, 100], the MIN
\* that the constructor of a node computes is ceil(t/2) - 1, and the tests
\* that use it say that a child underflows exactly when it holds fewer
\* records than that, and has a record to spare exactly when it holds more.
C35_Threshold ==
  out.op # "main" =>
    /\ out.MIN = ceilHalf(out.order) - 1
    /\ out.op = "restore" =>
         /\ out.underflow <=> (out.count < ceilHalf(out.order) - 1)
         /\ out.spare <=> (out.count > ceilHalf(out.order) - 1)

\* C35 witness: for the odd order 99, a child of 49 records has just been
\* found neither to underflow nor to have a record to spare.
C35_Witness ==
  /\ out.op = "restore" /\ out.order = 99
  /\ out.count = 49 /\ ~out.underflow /\ ~out.spare

(***************************************************************************)
(* C36: head.                                                              *)
(***************************************************************************)
\* the live IDs that are not below value
atOrAbove(r, value) == {id \in ids(r) : id >= value}

\* the smallest ID of a set of IDs that is not empty
least(S) == CHOOSE id \in S : \A o \in S : id <= o

\* what succ returns for value on the ring r that is not empty: the node
\* with the smallest ID that is not below value, and head when every ID is
\* below it
firstAtOrAbove(r, value) ==
  /\ succ(r, value) \in 1..Len(r)
  /\ IF atOrAbove(r, value) # {}
     THEN r[succ(r, value)].key = least(atOrAbove(r, value))
     ELSE succ(r, value) = 1

\* C36 (head is the minimum): after any joins and leaves on a ring of
\* distinct IDs, there is no head exactly when the ring has no node, and
\* otherwise head is the live node with the smallest ID, so that succ
\* returns the first node along next whose ID is not below the value, and
\* head when there is none.
C36_HeadIsMinimum ==
  /\ (ring = << >>) <=> (getMachineCount(ring) = 0)
  /\ (ring = << >>) <=> (ids(ring) = {})
  /\ ring # << >> =>
       /\ ring[1].key = least(ids(ring))
       /\ \A value \in ScanValues : firstAtOrAbove(ring, value)

\* C36 witness: a leave has just removed the head of a ring, three nodes or
\* more stay, the next one is head, and some value lies above every ID, for
\* which succ comes round to head.
C36_Witness ==
  /\ out.op = "DeleteMachine" /\ out.res = "removed"
  /\ Len(ring) >= 3
  /\ out.id < ring[1].key
  /\ \E value \in ScanValues :
       value >= 0 /\ atOrAbove(ring, value) = {} /\ succ(ring, value) = 1

(***************************************************************************)
(* C37: the footprint of the file operations.                              *)
(***************************************************************************)
\* r2 has the live nodes of the ring, in the same order from the same head,
\* each with the finger table it has in the ring
sameFrame(r2) ==
  /\ Len(r2) = Len(ring)
  /\ \A i \in 1..Len(ring) : r2[i].key = ring[i].key /\ r2[i].RT = ring[i].RT

\* the nodes whose B-tree in r2 is not the B-tree they have in the ring
changedTrees(r2) ==
  {i \in 1..Len(ring) : r2[i].BTreeroot # ring[i].BTreeroot}

\* the node at the end of a routing path
endOf(routingPath) == indexOf(ring, routingPath[Len(routingPath)])

\* the result r of a put or del routed along routingPath keeps the frame and
\* changes the B-tree of the node at the end of the path when it succeeded,
\* and no B-tree when it did not
footprint(r, routingPath) ==
  /\ sameFrame(r.ring)
  /\ IF r.res \in {"stored", "deleted"}
     THEN routingPath # << >> /\ changedTrees(r.ring) = {endOf(routingPath)}
     ELSE changedTrees(r.ring) = {}

\* put and del from any origin with any name have that footprint
footprints ==
  \A id \in MachineInputs : \A name \in Names :
    /\ footprint(InsertFileToTree(ring, id, H(name), name),
                 routeToKey(ring, id, H(name)))
    /\ footprint(DeleteFileFromTree(ring, id, H(name)),
                 routeToKey(ring, id, H(name)))

\* a get leaves the ring, the finger tables and the B-trees as they are
getStep == out'.op = "SearchFile" => ring' = ring

\* C37 (footprint of file operations): put, get and del never change the set
\* of live nodes, the next links or any finger table; get changes no B-tree;
\* a successful put or del changes the B-tree of exactly one node, the last
\* node of the routing path, and an unsuccessful one changes none.
C37_Footprint == [](footprints) /\ [][getStep]_vars

\* a put from a node other than the responsible one has stored a record on a
\* ring of three nodes of which two hold records
C37_Witness ==
  /\ out.op = "insertFile" /\ out.res = "stored"
  /\ Len(ring) = 3
  /\ Cardinality({i \in 1..3 : ring[i].BTreeroot # NIL}) = 2
  /\ \E i \in 1..3 : /\ out.file \in {enumerate(ring[i].BTreeroot)[j] :
                                        j \in 1..Len(enumerate(ring[i].BTreeroot))}
                     /\ Len(enumerate(ring[i].BTreeroot)) >= 2

(***************************************************************************)
(* C38: records outside the hand-off pair.                                 *)
(***************************************************************************)
\* the ID of the node that follows the node with this ID along next
followerOf(r, id) == r[(indexOf(r, id) % Len(r)) + 1].key

\* every node of the ring whose ID is not one of the pair is a node of r2
\* with the B-tree it has in the ring
keptOutside(r2, pair) ==
  \A i \in 1..Len(ring) :
    ring[i].key \notin pair =>
      /\ ring[i].key \in ids(r2)
      /\ r2[indexOf(r2, ring[i].key)].BTreeroot = ring[i].BTreeroot

\* r2 holds the records of the ring, each as often as the ring holds it
sameRecords(r2) == bag(recordsFrom(r2, 1)) = bag(recordsFrom(ring, 1))

\* the result r of a join of id that succeeded touches only the trees of id
\* and of the node that follows it, and keeps the records
joinConserves(r, id) ==
  r.res = "added" =>
    /\ keptOutside(r.ring, {id, followerOf(r.ring, id)})
    /\ sameRecords(r.ring)

\* the result r of a leave of id from a ring of two or more nodes touches
\* only the tree of the node that followed id, and keeps the records
leaveConserves(r, id) ==
  r.res = "removed" /\ Len(ring) >= 2 =>
    /\ ids(r.ring) = ids(ring) \ {id}
    /\ keptOutside(r.ring, {id, followerOf(ring, id)})
    /\ sameRecords(r.ring)

\* C38 (conservation outside the hand-off pair): a successful join(x)
\* changes only the B-trees of x and of x's successor, a leave(x) on a ring
\* of at least two nodes changes only the B-tree of x's successor, and in
\* both cases the multiset of records stored across the ring is the same
\* after the operation as before it.
C38_Conservation ==
  \A id \in MachineInputs :
    /\ joinConserves(insertAfter(ring, id), id)
    /\ leaveConserves(deletekey(ring, id), id)

\* a third node has joined a ring with records and took some from its
\* successor, while the node outside the pair holds records too
C38_Witness ==
  /\ out.op = "InsertMachine" /\ out.res = "added"
  /\ Len(ring) = 3
  /\ \A i \in 1..3 : ring[i].BTreeroot # NIL
  /\ Cardinality(stored) = MaxFiles

(***************************************************************************)
(* C39: the departure of the last node.                                    *)
(***************************************************************************)
\* the leave of the only node empties the ring: nothing is handed over, no
\* node and no record is left
soleLeave ==
  Len(ring) = 1 =>
    deletekey(ring, ring[1].key) = [ring |-> << >>, res |-> "removed"]

\* on a ring without nodes a put, a get and a del from any origin with any
\* name report the empty ring and leave it empty
emptyReports ==
  ring = << >> =>
    \A id \in MachineInputs : \A name \in Names :
      /\ InsertFileToTree(ring, id, H(name), name)
           = [ring |-> << >>, res |-> "empty_ring"]
      /\ SearchFile_WithMachine(ring, id, H(name)).res = "empty_ring"
      /\ DeleteFileFromTree(ring, id, H(name))
           = [ring |-> << >>, res |-> "empty_ring"]

\* a step from the ring that was emptied: a file operation reports the empty
\* ring and the ring stays empty; only a join makes it non-empty, and the
\* node that joined is alone and has an empty B-tree
emptyUntilJoin ==
  ring = << >> /\ initialized =>
    /\ out'.op \in {"insertFile", "SearchFile", "DeleteFile"} =>
         out'.res = "empty_ring" /\ ring' = << >>
    /\ ring' # << >> =>
         /\ out'.op = "InsertMachine" /\ out'.res = "added"
         /\ Len(ring') = 1
         /\ ring'[1].key = out'.id
         /\ ring'[1].BTreeroot = NIL

\* C39 (departure of the last node): leave(id) on a ring whose only node is
\* id performs no transfer, destroys the node with every record it held and
\* leaves the ring empty; every later put, get or del reports an empty ring
\* until a join occurs, and a node joined afterwards starts with an empty
\* B-tree.
C39_LastDeparture == [](soleLeave /\ emptyReports) /\ [][emptyUntilJoin]_vars

\* the only node has just left and the ring is empty
C39_Witness ==
  /\ out.op = "DeleteMachine" /\ out.res = "removed"
  /\ initialized
  /\ ring = << >>
  /\ stored = {}

(***************************************************************************)
(* C40: history independence.                                              *)
(***************************************************************************)
\* the IDs of the set I in ascending order
RECURSIVE ascendingIds(_)
ascendingIds(I) ==
  IF I = {} THEN << >> ELSE <<least(I)>> \o ascendingIds(I \ {least(I)})

\* the ID of I that is the successor of k on the identifier circle
ownerIn(I, k) ==
  CHOOSE id \in I :
    \A o \in I : (id - k) % identifierSpace <= (o - k) % identifierSpace

\* the finger with target t over the IDs in the order q
fingerOver(q, I, t) ==
  [filekey    |-> t,
   machinekey |-> ownerIn(I, t),
   m          |-> CHOOSE p \in 1..Len(q) : q[p] = ownerIn(I, t)]

\* the node with this ID in the ring that the IDs I and the records R
\* determine: its fingers over I, and the records of R it is the owner of
nodeOver(q, I, R, id) ==
  [key     |-> id,
   RT      |-> [j \in 1..Bits |->
                  fingerOver(q, I, (id + 2^(j - 1)) % identifierSpace)],
   records |-> {f \in R : ownerIn(I, f.key) = id}]

\* the ring that the IDs I and the records R determine, whatever the order
\* of the operations that brought them
ringOver(q, I, R) == [p \in 1..Len(q) |-> nodeOver(q, I, R, q[p])]

\* the records of a B-tree as a set
recordSet(n) == {enumerate(n)[j] : j \in 1..Len(enumerate(n))}

\* the records of all nodes of a ring as a set
allRecords(r) == UNION {recordSet(r[p].BTreeroot) : p \in 1..Len(r)}

\* what is compared of a ring: the IDs in order from head, the finger tables
\* and the set of records of each node
observed(r) ==
  [p \in 1..Len(r) |->
     [key |-> r[p].key, RT |-> r[p].RT, records |-> recordSet(r[p].BTreeroot)]]

\* the ring r is observed as the ring c, and routing on r from every node
\* of I to every key is routing on c
agrees(r, c, I) ==
  /\ observed(r) = c
  /\ \A s \in I : \A k \in 0..(identifierSpace - 1) :
       routeToKey(r, s, k) = routeToKey(c, s, k)

\* the ring agrees with the ring that its IDs and its records determine
determined(r, I) ==
  agrees(r, ringOver(ascendingIds(I), I, allRecords(r)), I)

\* C40 (history independence): in every state of every execution the ring
\* order, the finger tables and the set of records on each node are
\* determined by the set of live IDs and the set of stored records alone, so two executions that end with the same IDs and
\* records end with the same ring, and routeToKey(s, k) returns the same
\* path in both.
C40_HistoryIndependence == [](determined(ring, ids(ring)))

\* a ring of two nodes that both hold records, MaxFiles in all, reached by
\* a leave, that joins and puts without a leave reach as well
C40_Witness ==
  /\ out.op = "DeleteMachine" /\ out.res = "removed"
  /\ Len(ring) = 2
  /\ \A i \in 1..2 : ring[i].BTreeroot # NIL
  /\ Cardinality(allRecords(ring)) = MaxFiles
====
